---------------------------- MODULE Spec2Model ----------------------------
(***************************************************************************)
(* Layton: flow reconstruction engine and classifier dispatcher.           *)
(*                                                                         *)
(* The module models                                                       *)
(*   - FlowKey::new and the FlowRecord update chain (processor/flow.rs),   *)
(*   - the capture parser's hand-over to the engine (capture/sniffer.rs),  *)
(*   - the engine loop: packet, expiry tick, stats tick                    *)
(*     (processor/engine.rs),                                              *)
(*   - the classifier thread (classifier/classifier.rs).                   *)
(*                                                                         *)
(* Arithmetic.  Timestamps and durations are u64 microseconds.  The code   *)
(* subtracts them with `-` (wrapping in a release build) except where it   *)
(* says saturating_sub.  TLC integers are 32 bits wide, so the u64         *)
(* modulus 2^64 is represented by U64_MOD; every timestamp of the model    *)
(* is far below it, hence a wrapped difference exceeds every timeout of    *)
(* the program exactly as it does with 2^64.                               *)
(*                                                                         *)
(* The f64 statistics of a FlowRecord.  A Welford accumulator (mean, M2)   *)
(* is held as the sequence of samples fed to it, each with the divisor    *)
(* the code used for it; a std field is held as the number of samples and *)
(* the divisor at its last assignment (0 samples: the constructor's 0.0). *)
(* WelfordMean and WelfordM2 compute the exact values from the samples.   *)
(* A quotient of two integers (rates, ratios, bulk averages) is held as   *)
(* the pair of its numerator and denominator, in the units named at the   *)
(* definition.  Rounding of f64 arithmetic is not represented.            *)
(***************************************************************************)
EXTENDS Integers, Sequences, FiniteSets, TLC

\* ------------------------------------------------------------------------
\* Program constants
\* ------------------------------------------------------------------------
FLOW_TIMEOUT_US == 120000000
SUBFLOW_TIMEOUT_US == 1000000
ACTIVITY_TIMEOUT_US == 5000000
BULK_THRESHOLD == 4
\* ATTACK_THRESHOLD = 0.85, in hundredths of probability
ATTACK_THRESHOLD == 85
\* protocol number parse_packet writes for TCP
TCP_PROTOCOL == 6
\* Ethernet (14) + IPv4 (20) + TCP (20) header bytes of an option-less frame
ETH_HEADER_LEN == 14
\* FEATURE_L1_COUNT, FEATURE_L2_COUNT
FEATURE_L1_COUNT == 48
FEATURE_L2_COUNT == 52
\* 2^24: the integers below it are exact in an f32 (24-bit significand)
F32_EXACT == 16777216

\* ------------------------------------------------------------------------
\* Bounds of the model
\* ------------------------------------------------------------------------
\* stands for 2^64 (see the header)
U64_MOD == 536870912
\* packets the capture thread hands over in one run
MaxPackets == 2
\* NetworkStats the engine emits in one run
MaxStats == 1
\* NetworkStats that may wait in the stats channel in SpecTick
MaxTicks == 2
\* packets of the train in SpecRuns
MaxRunPackets == 7
\* NetworkStats the publisher receives in SpecPub
MaxReceived == 3
\* update_tcp_flow calls on the record of SpecFlow
MaxUpdates == 3
\* frames captured while the processor is being stopped (SpecStop)
MaxStopFrames == 1

\* calls of start_system that succeed
MaxStarts == 3

\* update_tcp_flags calls on the record of SpecFlags
MaxFlagPackets == 3

\* update_tcp_flow calls on the record of SpecBulk
MaxBulkPackets == 6
\* flows the classifier thread takes from its input channel
MaxFlows == 3

U64_MAX == U64_MOD - 1
\* stands for u32::MAX, the sentinel of the packet-length minima: above
\* every length of the model
U32_MAX == 1073741823
\* stands for f64::INFINITY, the sentinel of fwd_seg_size_min: above every
\* payload size of the model
F64_INFINITY == 1073741823

Min(a, b) == IF a < b THEN a ELSE b
Max(a, b) == IF a > b THEN a ELSE b

\* u64 `a - b` of a release build
WrapSub(a, b) == (a - b + U64_MOD) % U64_MOD
\* u64 `a + b`
WrapAdd(a, b) == (a + b) % U64_MOD
\* u64::saturating_sub
SatSub(a, b) == IF a > b THEN a - b ELSE 0
\* u16 `c += 1`
IncU16(c) == (c + 1) % 65536
\* tcp_flags & bit != 0, bit a power of two
HasFlag(tcp_flags, bit) == (tcp_flags \div bit) % 2 = 1

\* ------------------------------------------------------------------------
\* f64 values of the record
\* ------------------------------------------------------------------------
RECURSIVE GCD(_, _)
GCD(a, b) == IF b = 0 THEN a ELSE GCD(b, a % b)

Abs(a) == IF a < 0 THEN -a ELSE a

\* the quotient num / den (den # 0) in lowest terms, den > 0
Rat(num, den) ==
    LET g == GCD(Abs(num), Abs(den))
        sg == IF den < 0 THEN -1 ELSE 1
    IN  [num |-> sg * (num \div g), den |-> sg * (den \div g)]

RatZero == [num |-> 0, den |-> 1]
RatInt(a) == [num |-> a, den |-> 1]
RatAdd(p, q) == Rat(p.num * q.den + q.num * p.den, p.den * q.den)
RatSub(p, q) == Rat(p.num * q.den - q.num * p.den, p.den * q.den)
RatMul(p, q) == Rat(p.num * q.num, p.den * q.den)
RatDivInt(p, n) == Rat(p.num, p.den * n)

\* a Welford accumulator after the samples of w, each [x |-> value,
\* n |-> divisor]:  delta = x - mean; mean += delta / n;
\* delta2 = x - mean; m2 += delta * delta2
RECURSIVE WelfordState(_)
WelfordState(w) ==
    IF w = <<>> THEN [mean |-> RatZero, m2 |-> RatZero]
    ELSE LET prev == WelfordState(SubSeq(w, 1, Len(w) - 1))
             s == w[Len(w)]
             delta == RatSub(RatInt(s.x), prev.mean)
             mean == RatAdd(prev.mean, RatDivInt(delta, s.n))
             delta2 == RatSub(RatInt(s.x), mean)
         IN  [mean |-> mean, m2 |-> RatAdd(prev.m2, RatMul(delta, delta2))]

WelfordMean(w) == WelfordState(w).mean
WelfordM2(w) == WelfordState(w).m2

\* a rate amount / (duration_us / 1 000 000), kept as its two integers;
\* NoRate is the constructor's 0.0
Rate(amount, duration_us) == [amount |-> amount, duration_us |-> duration_us]
NoRate == [amount |-> 0, duration_us |-> 1]

\* one more sample for an accumulator
Sample(w, x, n) == Append(w, [x |-> x, n |-> n])

\* a std field never assigned: the constructor's 0.0
StdUnset == [k |-> 0, d |-> 1]
\* a std field assigned sqrt(m2 / d) with the accumulator holding w
StdOf(w, d) == [k |-> Len(w), d |-> d]
\* the square of a std field of the accumulator w: m2 / d at its assignment
StdSquared(w, std) ==
    IF std.k = 0 THEN RatZero
    ELSE RatDivInt(WelfordM2(SubSeq(w, 1, std.k)), std.d)


\* (ip, port) <= (ip', port') of Rust tuples: ip first, then port
PairLE(ip1, port1, ip2, port2) ==
    \/ ip1 < ip2
    \/ (ip1 = ip2 /\ port1 <= port2)

\* ------------------------------------------------------------------------
\* FlowKey
\* ------------------------------------------------------------------------
\* a plausible slip: the ports are left out of the comparison
FlowKeyNew_IpOnly(src_ip, dst_ip, src_port, dst_port, protocol) ==
    IF src_ip <= dst_ip
    THEN [ip_a |-> src_ip, ip_b |-> dst_ip, port_a |-> src_port,
          port_b |-> dst_port, protocol |-> protocol]
    ELSE [ip_a |-> dst_ip, ip_b |-> src_ip, port_a |-> dst_port,
          port_b |-> src_port, protocol |-> protocol]

\* a plausible slip: the endpoints are never swapped
FlowKeyNew_NoSwap(src_ip, dst_ip, src_port, dst_port, protocol) ==
    [ip_a |-> src_ip, ip_b |-> dst_ip, port_a |-> src_port,
     port_b |-> dst_port, protocol |-> protocol]

FlowKeyNew(src_ip, dst_ip, src_port, dst_port, protocol) ==
    IF PairLE(src_ip, src_port, dst_ip, dst_port)
    THEN [ip_a |-> src_ip, ip_b |-> dst_ip, port_a |-> src_port,
          port_b |-> dst_port, protocol |-> protocol]
    ELSE [ip_a |-> dst_ip, ip_b |-> src_ip, port_a |-> dst_port,
          port_b |-> src_port, protocol |-> protocol]


\* ------------------------------------------------------------------------
\* FlowRecord
\* ------------------------------------------------------------------------
\* FlowRecord::new.  uid is history only: the number of the record among
\* those the engine created; no operator of the program reads it.
FlowRecordNew(key, start_time, first_packet_direction, uid) ==
    [uid |-> uid,
     key |-> key,
     status |-> "Active",
     first_packet_forward |-> (first_packet_direction = "Forward"),
     last_packet_timestamp |-> start_time,
     last_fwd_packet_timestamp |-> start_time,
     last_bwd_packet_timestamp |-> 0,
     flow_start_time |-> start_time,
     flow_last_time |-> start_time,
     flow_duration |-> 0,
     last_checked_time |-> start_time,
     total_packets |-> 0,
     fwd_packet_count |-> 0,
     bwd_packet_count |-> 0,
     total_fwd_packets |-> 0,
     total_bwd_packets |-> 0,
     total_bytes |-> 0,
     total_fwd_bytes |-> 0,
     total_bwd_bytes |-> 0,
     fwd_packet_len_min |-> U32_MAX,
     fwd_packet_len_max |-> 0,
     bwd_packet_len_min |-> U32_MAX,
     bwd_packet_len_max |-> 0,
     flow_iat_max |-> 0,
     flow_iat_min |-> U64_MAX,
     flow_iat_total |-> 0,
     fwd_iat_min |-> U64_MAX,
     fwd_iat_max |-> 0,
     fwd_iat_total |-> 0,
     bwd_iat_min |-> U64_MAX,
     bwd_iat_max |-> 0,
     bwd_iat_total |-> 0,
     fwd_psh_flags |-> 0,
     bwd_psh_flags |-> 0,
     fwd_urg_flags |-> 0,
     bwd_urg_flags |-> 0,
     fwd_header_len |-> 0,
     bwd_header_len |-> 0,
     packet_len_min |-> U32_MAX,
     packet_len_max |-> 0,
     fin_flag_count |-> 0,
     syn_flag_count |-> 0,
     rst_flag_count |-> 0,
     psh_flag_count |-> 0,
     ack_flag_count |-> 0,
     urg_flag_count |-> 0,
     cwr_flag_count |-> 0,
     ece_flag_count |-> 0,
     fwd_seg_size_min |-> F64_INFINITY,
     num_fwd_bulk_transmissions |-> 0,
     fwd_bulk_start |-> 0,
     fwd_bulk_end |-> 0,
     fwd_bulk_duration |-> 0,
     fwd_bytes_curr_bulk |-> 0,
     fwd_bytes_bulk_tot |-> 0,
     fwd_packet_bulk_tot |-> 0,
     num_bwd_bulk_transmissions |-> 0,
     bwd_bulk_start |-> 0,
     bwd_bulk_end |-> 0,
     bwd_bulk_duration |-> 0,
     bwd_bytes_curr_bulk |-> 0,
     bwd_bytes_bulk_tot |-> 0,
     bwd_packet_bulk_tot |-> 0,
     fwd_consecutive_packets |-> 1,
     bwd_consecutive_packets |-> 0,
     last_bulk_direction |-> "None",
     total_fwd_subflows |-> 0,
     subflow_fwd_packets |-> 0,
     subflow_fwd_bytes |-> 0,
     total_bwd_subflows |-> 0,
     subflow_bwd_packets |-> 0,
     subflow_bwd_bytes |-> 0,
     fwd_init_win_bytes |-> 0,
     bwd_init_win_bytes |-> 0,
     fwd_act_data_packets |-> 0,
     active_counts |-> 0,
     active_time_tot |-> 0,
     active_min |-> U64_MAX,
     active_max |-> 0,
     last_activity_time |-> start_time,
     current_active_start |-> start_time,
     current_idle_start |-> 0,
     is_in_active_period |-> TRUE,
     idle_counts |-> 0,
     idle_time_tot |-> 0,
     idle_min |-> U64_MAX,
     idle_max |-> 0,
     \* f64 statistics (see the header)
     packet_len_welford |-> <<>>,
     packet_len_variance |-> StdUnset,
     packet_len_std |-> StdUnset,
     fwd_packet_len_welford |-> <<>>,
     fwd_packet_len_std |-> StdUnset,
     bwd_packet_len_welford |-> <<>>,
     bwd_packet_len_std |-> StdUnset,
     flow_iat_welford |-> <<>>,
     flow_iat_std |-> StdUnset,
     fwd_iat_welford |-> <<>>,
     fwd_iat_std |-> StdUnset,
     bwd_iat_welford |-> <<>>,
     bwd_iat_std |-> StdUnset,
     active_welford |-> <<>>,
     active_std |-> StdUnset,
     idle_welford |-> <<>>,
     idle_std |-> StdUnset,
     fwd_bytes_bulk_avg |-> RatZero,
     fwd_packet_bulk_avg |-> RatZero,
     fwd_bulk_rate_avg |-> NoRate,
     bwd_bytes_bulk_avg |-> RatZero,
     bwd_packet_bulk_avg |-> RatZero,
     bwd_bulk_rate_avg |-> NoRate,
     flow_packets_per_sec |-> NoRate,
     flow_bytes_per_sec |-> NoRate,
     fwd_packets_per_sec |-> NoRate,
     bwd_packets_per_sec |-> NoRate,
     avg_packet_size |-> RatZero,
     fwd_segment_size_avg |-> RatZero,
     bwd_segment_size_avg |-> RatZero,
     down_up_ratio |-> RatZero]

\* FlowRecord::last_seen_micros
last_seen_micros(r) == r.flow_last_time

\* FlowRecord::get_flow_direction
get_flow_direction(r, src_ip, dst_ip, src_port, dst_port) ==
    IF r.key.ip_a = src_ip /\ r.key.ip_b = dst_ip
       /\ r.key.port_a = src_port /\ r.key.port_b = dst_port
    THEN "Forward"
    ELSE "Backward"

\* FlowRecord::update_subflow_features
update_subflow_features(r, timestamp, direction, payload_len) ==
    IF direction = "Forward"
    THEN IF r.last_fwd_packet_timestamp > 0
         THEN IF SatSub(timestamp, r.last_fwd_packet_timestamp) > SUBFLOW_TIMEOUT_US
              THEN [r EXCEPT !.total_fwd_subflows = @ + 1,
                             !.subflow_fwd_packets = 1,
                             !.subflow_fwd_bytes = payload_len]
              ELSE [r EXCEPT !.subflow_fwd_packets = @ + 1,
                             !.subflow_fwd_bytes = @ + payload_len]
         ELSE [r EXCEPT !.total_fwd_subflows = 1,
                        !.subflow_fwd_packets = 1,
                        !.subflow_fwd_bytes = payload_len]
    ELSE IF r.last_bwd_packet_timestamp > 0
         THEN IF SatSub(timestamp, r.last_bwd_packet_timestamp) > SUBFLOW_TIMEOUT_US
              THEN [r EXCEPT !.total_bwd_subflows = @ + 1,
                             !.subflow_bwd_packets = 1,
                             !.subflow_bwd_bytes = payload_len]
              ELSE [r EXCEPT !.subflow_bwd_packets = @ + 1,
                             !.subflow_bwd_bytes = @ + payload_len]
         ELSE [r EXCEPT !.total_bwd_subflows = 1,
                        !.subflow_bwd_packets = 1,
                        !.subflow_bwd_bytes = payload_len]

\* a plausible slip: the aggregate count is bumped for one direction only
update_packet_length_stats_FwdOnly(r, packet_len, direction) ==
    IF direction = "Forward"
    THEN [r EXCEPT !.total_packets = @ + 1,
                   !.packet_len_min = Min(@, packet_len),
                   !.packet_len_max = Max(@, packet_len),
                   !.fwd_packet_count = @ + 1,
                   !.total_fwd_packets = @ + 1,
                   !.fwd_packet_len_min = Min(@, packet_len),
                   !.fwd_packet_len_max = Max(@, packet_len)]
    ELSE [r EXCEPT !.packet_len_min = Min(@, packet_len),
                   !.packet_len_max = Max(@, packet_len),
                   !.bwd_packet_count = @ + 1,
                   !.total_bwd_packets = @ + 1,
                   !.bwd_packet_len_min = Min(@, packet_len),
                   !.bwd_packet_len_max = Max(@, packet_len)]

\* a plausible slip: the variance divides by n, not by n - 1
update_packet_length_stats_DivN(r, packet_len, direction) ==
    LET n == r.total_packets + 1
        w == Sample(r.packet_len_welford, packet_len, n)
        s == [r EXCEPT !.total_packets = n,
                       !.packet_len_welford = w,
                       !.packet_len_variance = IF n > 1 THEN StdOf(w, n) ELSE @,
                       !.packet_len_std = IF n > 1 THEN StdOf(w, n - 1) ELSE @,
                       !.packet_len_min = Min(@, packet_len),
                       !.packet_len_max = Max(@, packet_len)]
    IN  IF direction = "Forward"
        THEN LET n_fwd == s.fwd_packet_count + 1
                 wf == Sample(s.fwd_packet_len_welford, packet_len, n_fwd)
             IN  [s EXCEPT !.fwd_packet_count = n_fwd,
                           !.total_fwd_packets = @ + 1,
                           !.fwd_packet_len_welford = wf,
                           !.fwd_packet_len_std =
                               IF n_fwd > 1 THEN StdOf(wf, n_fwd - 1) ELSE @,
                           !.fwd_packet_len_min = Min(@, packet_len),
                           !.fwd_packet_len_max = Max(@, packet_len)]
        ELSE LET n_bwd == s.bwd_packet_count + 1
                 wb == Sample(s.bwd_packet_len_welford, packet_len, n_bwd)
             IN  [s EXCEPT !.bwd_packet_count = n_bwd,
                           !.total_bwd_packets = @ + 1,
                           !.bwd_packet_len_welford = wb,
                           !.bwd_packet_len_std =
                               IF n_bwd > 1 THEN StdOf(wb, n_bwd - 1) ELSE @,
                           !.bwd_packet_len_min = Min(@, packet_len),
                           !.bwd_packet_len_max = Max(@, packet_len)]

\* FlowRecord::update_packet_length_stats
update_packet_length_stats(r, packet_len, direction) ==
    LET n == r.total_packets + 1
        w == Sample(r.packet_len_welford, packet_len, n)
        s == [r EXCEPT !.total_packets = n,
                       !.packet_len_welford = w,
                       !.packet_len_variance = IF n > 1 THEN StdOf(w, n - 1) ELSE @,
                       !.packet_len_std = IF n > 1 THEN StdOf(w, n - 1) ELSE @,
                       !.packet_len_min = Min(@, packet_len),
                       !.packet_len_max = Max(@, packet_len)]
    IN  IF direction = "Forward"
        THEN LET n_fwd == s.fwd_packet_count + 1
                 wf == Sample(s.fwd_packet_len_welford, packet_len, n_fwd)
             IN  [s EXCEPT !.fwd_packet_count = n_fwd,
                           !.total_fwd_packets = @ + 1,
                           !.fwd_packet_len_welford = wf,
                           !.fwd_packet_len_std =
                               IF n_fwd > 1 THEN StdOf(wf, n_fwd - 1) ELSE @,
                           !.fwd_packet_len_min = Min(@, packet_len),
                           !.fwd_packet_len_max = Max(@, packet_len)]
        ELSE LET n_bwd == s.bwd_packet_count + 1
                 wb == Sample(s.bwd_packet_len_welford, packet_len, n_bwd)
             IN  [s EXCEPT !.bwd_packet_count = n_bwd,
                           !.total_bwd_packets = @ + 1,
                           !.bwd_packet_len_welford = wb,
                           !.bwd_packet_len_std =
                               IF n_bwd > 1 THEN StdOf(wb, n_bwd - 1) ELSE @,
                           !.bwd_packet_len_min = Min(@, packet_len),
                           !.bwd_packet_len_max = Max(@, packet_len)]

\* update_tcp_flow, "Update byte counters": bytes, header lengths, forward
\* data packets and minimum segment, initial windows
update_byte_counters(r, direction, payload_size, window_size, header_len) ==
    LET s == [r EXCEPT !.total_bytes = @ + payload_size]
    IN  IF direction = "Forward"
        THEN [s EXCEPT !.total_fwd_bytes = @ + payload_size,
                       !.fwd_header_len = @ + header_len,
                       !.fwd_act_data_packets =
                           IF payload_size > 0 THEN @ + 1 ELSE @,
                       !.fwd_seg_size_min =
                           IF payload_size > 0 /\ payload_size < @
                           THEN payload_size ELSE @,
                       !.fwd_init_win_bytes =
                           IF s.total_fwd_packets = 1 THEN window_size ELSE @]
        ELSE [s EXCEPT !.total_bwd_bytes = @ + payload_size,
                       !.bwd_header_len = @ + header_len,
                       !.bwd_init_win_bytes =
                           IF s.total_bwd_packets = 1 THEN window_size ELSE @]

\* update_iat_stats: the accumulator and std of one direction, for the
\* gap iat and the direction's packet count n_dir
dir_iat_welford(w, iat, n_dir) == IF n_dir > 1 THEN Sample(w, iat, n_dir - 1) ELSE w
dir_iat_std(std, w, iat, n_dir) ==
    IF n_dir > 2 THEN StdOf(dir_iat_welford(w, iat, n_dir), n_dir - 2) ELSE std

\* FlowRecord::update_iat_stats
update_iat_stats(r, timestamp, direction) ==
    LET flow_iat == SatSub(timestamp, r.last_packet_timestamp)
        n == r.total_packets - 1
        wi == Sample(r.flow_iat_welford, flow_iat, n)
        s == IF r.total_packets > 1
             THEN LET f == [r EXCEPT !.flow_iat_total = WrapAdd(@, flow_iat),
                                     !.flow_iat_min = Min(@, flow_iat),
                                     !.flow_iat_max = Max(@, flow_iat),
                                     !.flow_iat_welford = wi,
                                     !.flow_iat_std =
                                         IF n > 1 THEN StdOf(wi, n - 1) ELSE @]
                  IN  IF direction = "Forward"
                      THEN LET fwd_iat == WrapSub(timestamp, f.last_fwd_packet_timestamp)
                               g == IF f.last_fwd_packet_timestamp > 0
                                    THEN [f EXCEPT
                                            !.fwd_iat_total = WrapAdd(@, fwd_iat),
                                            !.fwd_iat_min = Min(@, flow_iat),
                                            !.fwd_iat_max = Min(@, flow_iat),
                                            !.fwd_iat_welford =
                                                dir_iat_welford(@, fwd_iat, f.total_fwd_packets),
                                            !.fwd_iat_std =
                                                dir_iat_std(@, f.fwd_iat_welford, fwd_iat,
                                                            f.total_fwd_packets)]
                                    ELSE f
                           IN  [g EXCEPT !.last_fwd_packet_timestamp = timestamp]
                      ELSE LET bwd_iat == WrapSub(timestamp, f.last_bwd_packet_timestamp)
                               g == IF f.last_bwd_packet_timestamp > 0
                                    THEN [f EXCEPT
                                            !.bwd_iat_total = WrapAdd(@, bwd_iat),
                                            !.bwd_iat_min = Min(@, flow_iat),
                                            !.bwd_iat_max = Min(@, flow_iat),
                                            !.bwd_iat_welford =
                                                dir_iat_welford(@, bwd_iat, f.total_bwd_packets),
                                            !.bwd_iat_std =
                                                dir_iat_std(@, f.bwd_iat_welford, bwd_iat,
                                                            f.total_bwd_packets)]
                                    ELSE f
                           IN  [g EXCEPT !.last_bwd_packet_timestamp = timestamp]
             ELSE IF direction = "Forward"
                  THEN [r EXCEPT !.last_fwd_packet_timestamp = timestamp]
                  ELSE [r EXCEPT !.last_bwd_packet_timestamp = timestamp]
    IN  [s EXCEPT !.last_packet_timestamp = timestamp]

\* FlowRecord::update_active_time_stats: the results of min and max are
\* discarded by the code, so active_min and active_max keep their values
update_active_time_stats(r, duration) ==
    LET n == r.active_counts + 1
        w == Sample(r.active_welford, duration, n)
    IN  [r EXCEPT !.active_counts = n,
                  !.active_time_tot = WrapAdd(@, duration),
                  !.active_welford = w,
                  !.active_std = IF n > 1 THEN StdOf(w, n - 1) ELSE @]

\* FlowRecord::update_idle_time_stats
update_idle_time_stats(r, duration) ==
    LET n == r.idle_counts + 1
        w == Sample(r.idle_welford, duration, n)
    IN  [r EXCEPT !.idle_counts = n,
                  !.idle_time_tot = WrapAdd(@, duration),
                  !.idle_min = IF duration < @ THEN duration ELSE @,
                  !.idle_max = IF duration > @ THEN duration ELSE @,
                  !.idle_welford = w,
                  !.idle_std = IF n > 1 THEN StdOf(w, n - 1) ELSE @]

\* a plausible slip: the active period is committed but the record stays
\* marked active
update_active_idle_stats_StayActive(r, timestamp) ==
    LET s == IF r.total_packets > 1
                /\ WrapSub(timestamp, r.last_activity_time) > ACTIVITY_TIMEOUT_US
             THEN [update_active_time_stats(r,
                       WrapSub(r.last_activity_time, r.current_active_start))
                   EXCEPT !.current_idle_start = r.last_activity_time]
             ELSE r
    IN  [s EXCEPT !.last_activity_time = timestamp]

\* FlowRecord::update_active_idle_stats
update_active_idle_stats(r, timestamp) ==
    LET s == IF r.total_packets > 1
             THEN IF WrapSub(timestamp, r.last_activity_time) > ACTIVITY_TIMEOUT_US
                  THEN IF r.is_in_active_period
                       THEN [update_active_time_stats(r,
                                 WrapSub(r.last_activity_time, r.current_active_start))
                             EXCEPT !.current_idle_start = r.last_activity_time,
                                    !.is_in_active_period = FALSE]
                       ELSE r
                  ELSE IF ~r.is_in_active_period
                       THEN [update_idle_time_stats(r,
                                 WrapSub(timestamp, r.current_idle_start))
                             EXCEPT !.current_active_start = timestamp,
                                    !.is_in_active_period = TRUE]
                       ELSE r
             ELSE r
    IN  [s EXCEPT !.last_activity_time = timestamp]

\* a plausible slip: a committed bulk counts BULK_THRESHOLD packets, not the
\* packets of the run
finalize_fwd_bulk_ThresholdCount(r) ==
    LET s == IF r.fwd_consecutive_packets >= BULK_THRESHOLD
             THEN LET n_bulk == r.num_fwd_bulk_transmissions + 1
                      bytes_tot == r.fwd_bytes_bulk_tot + r.fwd_bytes_curr_bulk
                      packet_tot == r.fwd_packet_bulk_tot + BULK_THRESHOLD
                      duration == WrapSub(r.last_packet_timestamp, r.fwd_bulk_start)
                  IN  [r EXCEPT !.num_fwd_bulk_transmissions = n_bulk,
                                !.fwd_bytes_bulk_tot = bytes_tot,
                                !.fwd_packet_bulk_tot = packet_tot,
                                !.fwd_bytes_bulk_avg = Rat(bytes_tot, n_bulk),
                                !.fwd_packet_bulk_avg = Rat(packet_tot, n_bulk),
                                !.fwd_bulk_end = r.last_packet_timestamp,
                                !.fwd_bulk_duration = duration,
                                !.fwd_bulk_rate_avg =
                                    IF duration > 0
                                    THEN Rate(r.fwd_bytes_curr_bulk, duration) ELSE @]
             ELSE r
    IN  [s EXCEPT !.fwd_bytes_curr_bulk = 0,
                  !.fwd_consecutive_packets = 0]

\* FlowRecord::finalize_fwd_bulk
finalize_fwd_bulk(r) ==
    LET s == IF r.fwd_consecutive_packets >= BULK_THRESHOLD
             THEN LET n_bulk == r.num_fwd_bulk_transmissions + 1
                      bytes_tot == r.fwd_bytes_bulk_tot + r.fwd_bytes_curr_bulk
                      packet_tot == r.fwd_packet_bulk_tot + r.fwd_consecutive_packets
                      duration == WrapSub(r.last_packet_timestamp, r.fwd_bulk_start)
                  IN  [r EXCEPT !.num_fwd_bulk_transmissions = n_bulk,
                                !.fwd_bytes_bulk_tot = bytes_tot,
                                !.fwd_packet_bulk_tot = packet_tot,
                                !.fwd_bytes_bulk_avg = Rat(bytes_tot, n_bulk),
                                !.fwd_packet_bulk_avg = Rat(packet_tot, n_bulk),
                                !.fwd_bulk_end = r.last_packet_timestamp,
                                !.fwd_bulk_duration = duration,
                                !.fwd_bulk_rate_avg =
                                    IF duration > 0
                                    THEN Rate(r.fwd_bytes_curr_bulk, duration) ELSE @]
             ELSE r
    IN  [s EXCEPT !.fwd_bytes_curr_bulk = 0,
                  !.fwd_consecutive_packets = 0]

\* FlowRecord::finalize_bwd_bulk
finalize_bwd_bulk(r) ==
    LET s == IF r.bwd_consecutive_packets >= BULK_THRESHOLD
             THEN LET n_bulk == r.num_bwd_bulk_transmissions + 1
                      bytes_tot == r.bwd_bytes_bulk_tot + r.bwd_bytes_curr_bulk
                      packet_tot == r.bwd_packet_bulk_tot + r.bwd_consecutive_packets
                      duration == WrapSub(r.last_packet_timestamp, r.bwd_bulk_start)
                  IN  [r EXCEPT !.num_bwd_bulk_transmissions = n_bulk,
                                !.bwd_bytes_bulk_tot = bytes_tot,
                                !.bwd_packet_bulk_tot = packet_tot,
                                !.bwd_bytes_bulk_avg = Rat(bytes_tot, n_bulk),
                                !.bwd_packet_bulk_avg = Rat(packet_tot, n_bulk),
                                !.bwd_bulk_end = r.last_packet_timestamp,
                                !.bwd_bulk_duration = duration,
                                !.bwd_bulk_rate_avg =
                                    IF duration > 0
                                    THEN Rate(r.bwd_bytes_curr_bulk, duration) ELSE @]
             ELSE r
    IN  [s EXCEPT !.bwd_bytes_curr_bulk = 0,
                  !.bwd_consecutive_packets = 0]

\* FlowRecord::update_bulk_features
update_bulk_features(r, direction, payload_len) ==
    IF direction = "Forward"
    THEN LET s == IF r.last_bulk_direction = "Forward"
                  THEN [r EXCEPT !.fwd_consecutive_packets = @ + 1]
                  ELSE LET f == IF r.bwd_consecutive_packets >= BULK_THRESHOLD
                                THEN finalize_bwd_bulk(r) ELSE r
                       IN  [f EXCEPT !.fwd_consecutive_packets = 1,
                                     !.fwd_bulk_start = f.last_packet_timestamp]
         IN  [s EXCEPT !.fwd_bytes_curr_bulk =
                           IF payload_len > 0 THEN @ + payload_len ELSE @,
                       !.last_bulk_direction = "Forward"]
    ELSE LET s == IF r.last_bulk_direction = "Backward"
                  THEN [r EXCEPT !.bwd_consecutive_packets = @ + 1]
                  ELSE LET f == IF r.fwd_consecutive_packets >= BULK_THRESHOLD
                                THEN finalize_fwd_bulk(r) ELSE r
                       IN  [f EXCEPT !.bwd_consecutive_packets = 1,
                                     !.bwd_bulk_start = f.last_packet_timestamp]
         IN  [s EXCEPT !.bwd_bytes_curr_bulk =
                           IF payload_len > 0 THEN @ + payload_len ELSE @,
                       !.last_bulk_direction = "Backward"]

\* FlowRecord::update_tcp_flags
update_tcp_flags(r, tcp_flags, direction) ==
    LET psh == HasFlag(tcp_flags, 8)
        urg == HasFlag(tcp_flags, 32)
    IN  [r EXCEPT
           !.fin_flag_count = IF HasFlag(tcp_flags, 1) THEN IncU16(@) ELSE @,
           !.syn_flag_count = IF HasFlag(tcp_flags, 2) THEN IncU16(@) ELSE @,
           !.rst_flag_count = IF HasFlag(tcp_flags, 4) THEN IncU16(@) ELSE @,
           !.psh_flag_count = IF psh THEN IncU16(@) ELSE @,
           !.fwd_psh_flags = IF psh /\ direction = "Forward" THEN IncU16(@) ELSE @,
           !.bwd_psh_flags = IF psh /\ direction = "Backward" THEN IncU16(@) ELSE @,
           !.ack_flag_count = IF HasFlag(tcp_flags, 16) THEN IncU16(@) ELSE @,
           !.urg_flag_count = IF urg THEN IncU16(@) ELSE @,
           !.fwd_urg_flags = IF urg /\ direction = "Forward" THEN IncU16(@) ELSE @,
           !.bwd_urg_flags = IF urg /\ direction = "Backward" THEN IncU16(@) ELSE @,
           !.ece_flag_count = IF HasFlag(tcp_flags, 64) THEN IncU16(@) ELSE @,
           !.cwr_flag_count = IF HasFlag(tcp_flags, 128) THEN IncU16(@) ELSE @]

\* update_tcp_flow, "Update flow metadata"
update_flow_metadata(r, timestamp) ==
    [r EXCEPT !.flow_last_time = timestamp,
              !.flow_duration = SatSub(timestamp, r.flow_start_time),
              !.last_checked_time = timestamp,
              !.status = "Active"]

\* FlowRecord::calculate_derived_features
calculate_derived_features(r) ==
    LET timed == r.flow_duration > 0
    IN  [r EXCEPT
           !.flow_packets_per_sec = IF timed THEN Rate(r.total_packets, r.flow_duration) ELSE @,
           !.flow_bytes_per_sec = IF timed THEN Rate(r.total_bytes, r.flow_duration) ELSE @,
           !.fwd_packets_per_sec = IF timed THEN Rate(r.total_fwd_packets, r.flow_duration) ELSE @,
           !.bwd_packets_per_sec = IF timed THEN Rate(r.total_bwd_packets, r.flow_duration) ELSE @,
           !.avg_packet_size =
               IF r.total_packets > 0 THEN Rat(r.total_bytes, r.total_packets) ELSE @,
           !.fwd_segment_size_avg =
               IF r.total_fwd_packets > 0
               THEN Rat(r.total_fwd_bytes, r.total_fwd_packets) ELSE @,
           !.bwd_segment_size_avg =
               IF r.total_bwd_packets > 0
               THEN Rat(r.total_bwd_bytes, r.total_bwd_packets) ELSE @,
           !.down_up_ratio =
               IF r.total_fwd_bytes > 0
               THEN Rat(r.total_bwd_bytes, r.total_fwd_bytes) ELSE @]

\* FlowRecord::update_tcp_flow.  protocol is accepted and not read.
update_tcp_flow(r, timestamp, src_ip, dst_ip, src_port, dst_port, protocol, packet_len, payload_size, tcp_flags, window_size, header_len) ==
    LET direction == get_flow_direction(r, src_ip, dst_ip, src_port, dst_port)
        r1 == update_subflow_features(r, timestamp, direction, payload_size)
        r2 == update_packet_length_stats(r1, packet_len, direction)
        r3 == update_byte_counters(r2, direction, payload_size, window_size, header_len)
        r4 == update_iat_stats(r3, timestamp, direction)
        r5 == update_active_idle_stats(r4, timestamp)
        r6 == update_bulk_features(r5, direction, payload_size)
        r7 == update_tcp_flags(r6, tcp_flags, direction)
    IN  calculate_derived_features(update_flow_metadata(r7, timestamp))

\* a plausible slip: only the FIN flag ends a flow
should_terminate_FinOnly(r, current_time, has_fin_flag) == has_fin_flag

\* FlowRecord::should_terminate
should_terminate(r, current_time, has_fin_flag) ==
    \/ has_fin_flag
    \/ WrapSub(current_time, r.flow_start_time) > FLOW_TIMEOUT_US


\* ------------------------------------------------------------------------
\* Inputs of the model
\* ------------------------------------------------------------------------
\* the earliest timestamp of the model, in microseconds (positive, as
\* every epoch timestamp is)
T0 == 10000000

\* capture timestamps and wall-clock readings: the start, exactly the
\* flow timeout later, and one microsecond after that
Times == {T0, T0 + FLOW_TIMEOUT_US, T0 + FLOW_TIMEOUT_US + 1}

\* (src_ip, dst_ip, src_port, dst_port) of the frames on the wire: a
\* conversation between two hosts in both directions, and a reply between
\* two ports of one host
WireTuples == {<<1, 2, 1, 2>>, <<2, 1, 2, 1>>, <<1, 1, 2, 1>>}

\* IPv4 and TCP header bytes of the frames (no options)
IP_HEADER_LEN == 20
TCP_HEADER_LEN == 20
WINDOW_SIZE == 1024

\* (tcp flags, frame payload bytes) of a PSH|ACK data frame and of a FIN|ACK
DataShape == <<24, 100>>
FinShape == <<17, 0>>

\* a frame as etherparse presents it to parse_packet: Ethernet/IPv4/TCP
Frame(t, w, sh) ==
    [ts |-> t, src_ip |-> w[1], dst_ip |-> w[2], src_port |-> w[3],
     dst_port |-> w[4], flags |-> sh[1], window_size |-> WINDOW_SIZE,
     tcp_header_len |-> TCP_HEADER_LEN, ip_header_len |-> IP_HEADER_LEN,
     len |-> ETH_HEADER_LEN + IP_HEADER_LEN + TCP_HEADER_LEN + sh[2]]

\* the frames the capture handle delivers: a data frame of every tuple at
\* the start, one of either direction of the two-host conversation just
\* past the flow timeout, one exactly at the timeout, and a FIN
Frames ==
    { Frame(T0, w, DataShape) : w \in WireTuples }
    \cup { Frame(T0 + FLOW_TIMEOUT_US + 1, w, DataShape) :
              w \in {<<1, 2, 1, 2>>, <<2, 1, 2, 1>>} }
    \cup { Frame(T0 + FLOW_TIMEOUT_US, <<1, 2, 1, 2>>, DataShape) }
    \cup { Frame(T0, <<1, 2, 1, 2>>, FinShape) }

\* wall-clock readings of the stats tick
StatTimes == {T0 + FLOW_TIMEOUT_US + 1}

\* ------------------------------------------------------------------------
\* Capture
\* ------------------------------------------------------------------------
\* PacketSniffer::parse_packet on an IPv4/TCP frame
parse_packet(f) ==
    LET total_header_len == ETH_HEADER_LEN + f.ip_header_len + f.tcp_header_len
    IN  [timestamp |-> f.ts,
         flow_key |-> FlowKeyNew(f.src_ip, f.dst_ip, f.src_port, f.dst_port,
                                 TCP_PROTOCOL),
         packet_len |-> f.len,
         payload_len |-> SatSub(f.len, total_header_len),
         tcp_flags |-> f.flags,
         window_size |-> f.window_size,
         header_len |-> total_header_len]

\* ------------------------------------------------------------------------
\* State
\* ------------------------------------------------------------------------
VARIABLES
    \* FlowKey::new applied to one 5-tuple and to the tuple of its reply
    \* (SpecKey); key_fwd and key_rev hold the result once it is computed
    key_in, key_fwd, key_rev,
    \* one FlowRecord driven directly through update_tcp_flow (SpecFlow,
    \* SpecBulk), and the packets SpecBulk has given it (history)
    rec, rec_updates, rec_hist,
    \* capture -> engine channel, and for each queued packet whether its
    \* sender on the wire was the canonical b endpoint (history)
    packet_chan, wire_reply, captured,
    \* the engine thread
    running, flows, start_time, last_rate_us,
    pkts_acc, bytes_acc, total_pkts, total_bytes,
    \* engine -> classifier channel and whether its receiver still exists
    classifier_chan, rx_in_alive,
    \* engine -> publisher channel, and the publisher's latest stats
    stats_chan, latest,
    \* history: the engine's last step, records created, uids sent
    last, next_uid, sent_uids,
    \* the classifier thread (SpecCls)
    cls_pc, cls_flow, cls_bin, cls_multi, bin_runs, multi_runs, cls_taken,
    out_chan, dropped,
    \* where the engine thread, the publisher thread and stop_processor are
    \* (SpecStop), and the events each loop has served since the running
    \* flag was cleared (history)
    eng_pc, pub_pc, stop_pc, eng_after, pub_after,
    \* whether AppState still holds the ClassifierHandles, and where the
    \* thread that forwards classified flows to the UI is (SpecSys)
    handles_held, ui_pc,
    \* history of the publisher: how many NetworkStats it has received, and
    \* what it emitted last to the UI
    pub_received, emitted,
    \* every system start_system has brought up, with its threads and flags;
    \* which of them AppState holds; where the UI's command is (SpecStart)
    systems, app_slot, cmd

keyVars == <<key_in, key_fwd, key_rev>>
recVars == <<rec, rec_updates, rec_hist>>
engVars == <<packet_chan, wire_reply, captured, running, flows,
             start_time, last_rate_us, pkts_acc, bytes_acc, total_pkts,
             total_bytes, stats_chan, latest, last, next_uid, sent_uids>>
chanVars == <<classifier_chan, rx_in_alive>>
clsVars == <<cls_pc, cls_flow, cls_bin, cls_multi, bin_runs, multi_runs,
             cls_taken, out_chan, dropped>>
appVars == <<systems, app_slot, cmd>>
sysVars == <<handles_held, ui_pc, appVars>>
pubVars == <<pub_received, emitted>>
thrVars == <<eng_pc, pub_pc, stop_pc, eng_after, pub_after, sysVars, pubVars>>
vars == <<keyVars, recVars, engVars, chanVars, clsVars, thrVars>>

NoRecord == [uid |-> 0]
\* HashMap::new()
EmptyFlows == [k \in {} |-> NoRecord]
NoStep == [kind |-> "none"]
\* Option<Inference>::None, and a binary stage that has not answered
NoInference == [present |-> FALSE]

InitKey == key_in = <<1, 1, 1, 1>> /\ key_fwd = {} /\ key_rev = {}
InitRec == rec = NoRecord /\ rec_updates = 0 /\ rec_hist = <<>>
\* the publisher's latest before any NetworkStats came: None
NoStats == [flow_count |-> -1]

InitEng ==
    /\ packet_chan = <<>>
    /\ wire_reply = <<>>
    /\ captured = 0
    /\ running = TRUE
    /\ flows = EmptyFlows
    /\ start_time = T0
    /\ last_rate_us = T0
    /\ pkts_acc = 0
    /\ bytes_acc = 0
    /\ total_pkts = 0
    /\ total_bytes = 0
    /\ stats_chan = <<>>
    /\ latest = NoStats
    /\ last = NoStep
    /\ next_uid = 1
    /\ sent_uids = <<>>
InitChan == classifier_chan = <<>> /\ rx_in_alive = TRUE
InitCls ==
    /\ cls_pc = "load"
    /\ cls_flow = NoRecord
    /\ cls_bin = NoInference
    /\ cls_multi = NoInference
    /\ bin_runs = 0
    /\ multi_runs = 0
    /\ cls_taken = 0
    /\ out_chan = <<>>
    /\ dropped = 0
\* start_processor has spawned both loops; stop_processor was not called
\* nothing emitted yet
NoEmit == [idx |-> 0]

\* no command of the UI has been called yet
NoCommand == [pc |-> "none", g |-> 0]

InitThr ==
    /\ eng_pc = "check"
    /\ pub_pc = "check"
    /\ stop_pc = "idle"
    /\ eng_after = 0
    /\ pub_after = 0
    /\ handles_held = TRUE
    /\ ui_pc = "recv"
    /\ pub_received = 0
    /\ emitted = NoEmit
    /\ systems = <<>>
    /\ app_slot = 0
    /\ cmd = NoCommand


\* ------------------------------------------------------------------------
\* Channels and the flow table
\* ------------------------------------------------------------------------
\* a plausible slip: a send with no receiver left still queues the message
ChanSend_Queues(chan, alive, msg) == Append(chan, msg)

\* crossbeam Sender::send on an unbounded channel: the message is queued
\* while a receiver exists, otherwise send returns Err and the message is
\* dropped (the engine ignores the result)
ChanSend(chan, alive, msg) == IF alive THEN Append(chan, msg) ELSE chan

RECURSIVE ChanSendAll(_, _, _)
ChanSendAll(chan, alive, msgs) ==
    IF msgs = <<>> THEN chan
    ELSE ChanSendAll(ChanSend(chan, alive, Head(msgs)), alive, Tail(msgs))

\* HashMap::insert / the entry's into_mut after the update
TableInsert(fl, key, flow) ==
    [k \in DOMAIN fl \cup {key} |-> IF k = key THEN flow ELSE fl[k]]

\* a plausible slip: the record is cloned and sent but stays in the map
TableRemove_Keep(fl, key) == fl

\* HashMap::remove
TableRemove(fl, key) == [k \in DOMAIN fl \ {key} |-> fl[k]]

\* every order in which a HashMap iteration can visit the keys of S
Orders(S) ==
    { o \in [1..Cardinality(S) -> S] : \A i, j \in 1..Cardinality(S) :
                                          i # j => o[i] # o[j] }

RECURSIVE SeqUids(_)
SeqUids(msgs) ==
    IF msgs = <<>> THEN <<>> ELSE <<Head(msgs).uid>> \o SeqUids(Tail(msgs))

\* ------------------------------------------------------------------------
\* Engine: packet event
\* ------------------------------------------------------------------------
\* processing_loop, Entry::Vacant: the direction of a new flow's first packet
first_direction(pkt) ==
    IF PairLE(pkt.flow_key.ip_a, pkt.flow_key.port_a,
              pkt.flow_key.ip_b, pkt.flow_key.port_b)
    THEN "Forward" ELSE "Backward"

\* processing_loop: flows.entry(normalized_key), occupied or vacant
lookup_or_insert(fl, key, pkt, uid) ==
    IF key \in DOMAIN fl THEN fl[key]
    ELSE FlowRecordNew(key, pkt.timestamp, first_direction(pkt), uid)

\* processing_loop: the call of update_tcp_flow with the packet's fields
apply_packet(flow, pkt) ==
    update_tcp_flow(flow, pkt.timestamp,
                    pkt.flow_key.ip_a, pkt.flow_key.ip_b,
                    pkt.flow_key.port_a, pkt.flow_key.port_b,
                    pkt.flow_key.protocol, pkt.packet_len, pkt.payload_len,
                    pkt.tcp_flags, pkt.window_size, pkt.header_len)

\* a plausible slip: the record is cloned for the classifier before the
\* packet is applied to it
terminate_or_keep_StaleClone(fl, key, before, flow, term) ==
    IF term
    THEN [flows |-> TableRemove(fl, key), sent |-> <<before>>]
    ELSE [flows |-> TableInsert(fl, key, flow), sent |-> <<>>]

\* processing_loop: "send it to the classifier and remove it from the
\* HashMap if should be removed".  before is the record as looked up,
\* flow the record after update_tcp_flow.
terminate_or_keep(fl, key, before, flow, term) ==
    IF term
    THEN [flows |-> TableRemove(fl, key), sent |-> <<flow>>]
    ELSE [flows |-> TableInsert(fl, key, flow), sent |-> <<>>]

\* ------------------------------------------------------------------------
\* Engine: expiry tick
\* ------------------------------------------------------------------------
\* a plausible slip: the age is compared in whole seconds
expired_keys_Seconds(fl, now) ==
    { k \in DOMAIN fl :
        ~(WrapSub(now, last_seen_micros(fl[k])) \div 1000000
            <= FLOW_TIMEOUT_US \div 1000000) }

\* processing_loop, expire_tick: the keys for which retain's should_keep
\* is false
expired_keys(fl, now) ==
    { k \in DOMAIN fl :
        ~(WrapSub(now, last_seen_micros(fl[k])) < FLOW_TIMEOUT_US) }

\* a plausible slip: the expired flows are collected but retain keeps them
retain_flows_KeepAll(fl, gone) == fl

retain_flows_Refresh(fl, gone) ==
    [k \in DOMAIN fl \ gone |-> [fl[k] EXCEPT !.flow_last_time = 0]]

\* processing_loop, expire_tick: what retain leaves in the table
retain_flows(fl, gone) == [k \in DOMAIN fl \ gone |-> fl[k]]


\* ------------------------------------------------------------------------
\* Actions of the pipeline (Spec)
\* ------------------------------------------------------------------------
\* whether the frame's sender is the a or the b endpoint of its canonical key
WireSrc(f) ==
    LET key == FlowKeyNew(f.src_ip, f.dst_ip, f.src_port, f.dst_port, TCP_PROTOCOL)
    IN  IF f.src_ip = key.ip_a /\ f.src_port = key.port_a THEN "a" ELSE "b"

\* PacketSniffer::packet_handler: parse the frame and try_send it.  The
\* capture thread never reads the engine's state and the channel is FIFO, so
\* letting it hand over a frame only when the previous one has been taken
\* loses none of the engine's behaviours.
Capture ==
    /\ captured < MaxPackets
    /\ packet_chan = <<>>
    /\ \E f \in Frames :
          /\ packet_chan' = Append(packet_chan, parse_packet(f))
          /\ wire_reply' = Append(wire_reply, WireSrc(f))
    /\ captured' = captured + 1
    /\ UNCHANGED <<running, flows, start_time, last_rate_us, pkts_acc,
                   bytes_acc, total_pkts, total_bytes, stats_chan, latest,
                   last, next_uid, sent_uids>>
    /\ UNCHANGED <<keyVars, recVars, chanVars, clsVars, thrVars>>

\* processing_loop, recv(packet_rx)
EnginePacketStep ==
    /\ packet_chan # <<>>
    /\ LET pkt == Head(packet_chan)
           normalized_key == FlowKeyNew(pkt.flow_key.ip_a, pkt.flow_key.ip_b,
                                        pkt.flow_key.port_a, pkt.flow_key.port_b,
                                        pkt.flow_key.protocol)
           existed == normalized_key \in DOMAIN flows
           before == lookup_or_insert(flows, normalized_key, pkt, next_uid)
           has_fin == HasFlag(pkt.tcp_flags, 1)
           flow == apply_packet(before, pkt)
           term == should_terminate(flow, pkt.timestamp, has_fin)
           out == terminate_or_keep(flows, normalized_key, before, flow, term)
       IN  /\ flows' = out.flows
           /\ classifier_chan' = ChanSendAll(classifier_chan, rx_in_alive, out.sent)
           /\ sent_uids' = sent_uids \o SeqUids(out.sent)
           /\ next_uid' = IF existed THEN next_uid ELSE next_uid + 1
           /\ pkts_acc' = pkts_acc + 1
           /\ total_pkts' = total_pkts + 1
           /\ bytes_acc' = bytes_acc + pkt.payload_len
           /\ total_bytes' = total_bytes + pkt.payload_len
           /\ last' = [kind |-> "pkt", key |-> normalized_key,
                       wire_src |-> Head(wire_reply), existed |-> existed,
                       pre_total |-> before.total_packets,
                       pre_fwd |-> before.total_fwd_packets,
                       pre_bwd |-> before.total_bwd_packets,
                       updated |-> flow, terminate |-> term, has_fin |-> has_fin,
                       timestamp |-> pkt.timestamp, sent |-> out.sent,
                       rx_alive |-> rx_in_alive]
    /\ packet_chan' = Tail(packet_chan)
    /\ wire_reply' = Tail(wire_reply)
    /\ UNCHANGED <<captured, running, start_time, last_rate_us,
                   stats_chan, latest, rx_in_alive>>
    /\ UNCHANGED <<keyVars, recVars, clsVars>>

\* the packet event as one step of a running engine: the flag is read and
\* the event served
EnginePacket ==
    /\ running
    /\ EnginePacketStep
    /\ UNCHANGED thrVars

\* processing_loop, recv(expire_tick).  now_micros() reads SystemTime, the
\* wall clock, which the operating system may set forward or back.
EngineExpireStep(Readings) ==
    /\ \E now \in Readings :
          /\ LET gone == expired_keys(flows, now)
             IN  /\ flows' = retain_flows(flows, gone)
                 /\ \E o \in Orders(gone) :
                       LET msgs == [i \in 1..Cardinality(gone) |-> flows[o[i]]]
                       IN  /\ classifier_chan' =
                                 ChanSendAll(classifier_chan, rx_in_alive, msgs)
                           /\ sent_uids' = sent_uids \o SeqUids(msgs)
                           /\ last' = [kind |-> "expire", now |-> now,
                                       table |-> flows, sent |-> msgs,
                                       rx_alive |-> rx_in_alive]
    /\ UNCHANGED <<packet_chan, wire_reply, captured, running, start_time,
                   last_rate_us, pkts_acc, bytes_acc, total_pkts, total_bytes,
                   stats_chan, latest, next_uid, rx_in_alive>>
    /\ UNCHANGED <<keyVars, recVars, clsVars>>

\* the expiry tick as one step of a running engine
EngineExpireTickAt(Readings) ==
    /\ running
    /\ EngineExpireStep(Readings)
    /\ UNCHANGED thrVars

\* the expiry tick with the wall-clock readings of the pipeline model
EngineExpireTick == EngineExpireTickAt(Times)

NetworkStatsAt_TickCounts(now) ==
    LET dt_us == Max(WrapSub(now, last_rate_us), 1)
    IN  [flow_count |-> Cardinality(DOMAIN flows),
         packets_per_second |-> <<pkts_acc, dt_us>>,
         bytes_per_second |-> <<bytes_acc, dt_us>>,
         total_packets |-> pkts_acc,
         total_bytes |-> bytes_acc,
         uptime_seconds |-> WrapSub(now, start_time) \div 1000000]

\* the NetworkStats built at a stats tick that reads the clock as now.  The
\* two rates are kept as the accumulator and the divisor dt in microseconds
\* (floor of 1 us).
NetworkStatsAt(now) ==
    LET dt_us == Max(WrapSub(now, last_rate_us), 1)
    IN  [flow_count |-> Cardinality(DOMAIN flows),
         packets_per_second |-> <<pkts_acc, dt_us>>,
         bytes_per_second |-> <<bytes_acc, dt_us>>,
         total_packets |-> total_pkts,
         total_bytes |-> total_bytes,
         uptime_seconds |-> WrapSub(now, start_time) \div 1000000]

\* processing_loop, recv(stats_tick), while fewer than Limit NetworkStats
\* wait in the channel
EngineStatsStepUpTo(Limit) ==
    /\ Len(stats_chan) < Limit
    /\ \E now \in StatTimes :
          /\ LET stats == NetworkStatsAt(now)
             IN  /\ stats_chan' = Append(stats_chan, stats)
                 /\ last' = [kind |-> "stats", now |-> now, stats |-> stats,
                             rx_alive |-> rx_in_alive]
          /\ last_rate_us' = now
    /\ pkts_acc' = 0
    /\ bytes_acc' = 0
    /\ UNCHANGED <<packet_chan, wire_reply, captured, running, flows, start_time,
                   total_pkts, total_bytes, latest, next_uid, sent_uids>>
    /\ UNCHANGED <<keyVars, recVars, chanVars, clsVars>>

EngineStatsStep == EngineStatsStepUpTo(MaxStats)

\* the stats tick as one step of a running engine
EngineStatsTick ==
    /\ running
    /\ EngineStatsStep
    /\ UNCHANGED thrVars

\* ------------------------------------------------------------------------
\* The two loops of the processor and stop_processor (SpecStop)
\* ------------------------------------------------------------------------
\* a plausible slip: the loop does not look at the flag
loop_top_Ignore(run) == "select"

\* `if !running.load(Ordering::Relaxed) { break; }` at the top of
\* processing_loop and of publisher_loop: where the thread goes next
loop_top(run) == IF run THEN "select" ELSE "exited"

\* processing_loop: the top of the loop
EngineTop ==
    /\ eng_pc = "check"
    /\ eng_pc' = loop_top(running)
    /\ UNCHANGED <<pub_pc, stop_pc, eng_after, pub_after, sysVars, pubVars>>
    /\ UNCHANGED <<keyVars, recVars, engVars, chanVars, clsVars>>

\* processing_loop: the select has picked an event; after it the thread is
\* back at the top of the loop
EngineServed ==
    /\ eng_pc = "select"
    /\ eng_pc' = "check"
    /\ eng_after' = IF running THEN eng_after ELSE eng_after + 1
    /\ UNCHANGED <<pub_pc, stop_pc, pub_after, sysVars, pubVars>>

\* publisher_loop: the top of the loop
PublisherTop ==
    /\ pub_pc = "check"
    /\ pub_pc' = loop_top(running)
    /\ UNCHANGED <<eng_pc, stop_pc, eng_after, pub_after, sysVars, pubVars>>
    /\ UNCHANGED <<keyVars, recVars, engVars, chanVars, clsVars>>

PublisherServed ==
    /\ pub_pc = "select"
    /\ pub_pc' = "check"
    /\ pub_after' = IF running THEN pub_after ELSE pub_after + 1
    /\ UNCHANGED <<eng_pc, stop_pc, eng_after, sysVars>>

\* publisher_loop, recv(stats_rx)
PublisherRecvStep ==
    /\ PublisherServed
    /\ stats_chan # <<>>
    /\ latest' = Head(stats_chan)
    /\ stats_chan' = Tail(stats_chan)
    /\ UNCHANGED <<packet_chan, wire_reply, captured, running, flows,
                   start_time, last_rate_us, pkts_acc, bytes_acc, total_pkts,
                   total_bytes, last, next_uid, sent_uids>>
    /\ UNCHANGED <<keyVars, recVars, chanVars, clsVars>>

emit_on_tick_Always(lat, received, before) ==
    [idx |-> received, stats |-> lat, prev |-> before.idx]

\* publisher_loop, recv(emit_tick): what the UI got last, after a tick with
\* latest = lat, the received-th NetworkStats; before is what it got last
\* until now, whose number is kept as prev
emit_on_tick(lat, received, before) ==
    IF lat # NoStats
    THEN [idx |-> received, stats |-> lat, prev |-> before.idx]
    ELSE before

\* publisher_loop, recv(emit_tick): the 250 ms tick; the emit to the UI
\* changes nothing the pipeline keeps
PublisherEmitStep ==
    /\ PublisherServed
    /\ UNCHANGED <<keyVars, recVars, engVars, chanVars, clsVars>>

\* the two events of the publisher with its history left out
PublisherRecv == PublisherRecvStep /\ UNCHANGED pubVars
PublisherEmitTick == PublisherEmitStep /\ UNCHANGED pubVars

\* the same two events with the history kept: the NetworkStats received are
\* counted, and what the tick emits is recorded
PublisherRecvCounted ==
    /\ pub_received < MaxReceived
    /\ PublisherRecvStep
    /\ pub_received' = pub_received + 1
    /\ UNCHANGED emitted

PublisherEmitRecorded ==
    /\ PublisherEmitStep
    /\ emitted' = emit_on_tick(latest, pub_received, emitted)
    /\ UNCHANGED pub_received

\* FeatureProcessor::stop_processor: running.store(false)
StopProcessor ==
    /\ stop_pc \in {"idle", "sniffer_stopped"}
    /\ running
    /\ running' = FALSE
    /\ stop_pc' = "join_processing"
    /\ UNCHANGED <<eng_pc, pub_pc, eng_after, pub_after, sysVars, pubVars>>
    /\ UNCHANGED <<packet_chan, wire_reply, captured, flows, start_time,
                   last_rate_us, pkts_acc, bytes_acc, total_pkts, total_bytes,
                   stats_chan, latest, last, next_uid, sent_uids>>
    /\ UNCHANGED <<keyVars, recVars, chanVars, clsVars>>

\* stop_processor: processing_thread.take().join() returns
JoinProcessing ==
    /\ stop_pc = "join_processing"
    /\ eng_pc = "exited"
    /\ stop_pc' = "join_publisher"
    /\ UNCHANGED <<eng_pc, pub_pc, eng_after, pub_after, sysVars, pubVars>>
    /\ UNCHANGED <<keyVars, recVars, engVars, chanVars, clsVars>>

\* stop_processor: publisher_thread.take().join() returns
JoinPublisher ==
    /\ stop_pc = "join_publisher"
    /\ pub_pc = "exited"
    /\ stop_pc' = "returned"
    /\ UNCHANGED <<eng_pc, pub_pc, eng_after, pub_after, sysVars, pubVars>>
    /\ UNCHANGED <<keyVars, recVars, engVars, chanVars, clsVars>>

\* spawn_classifier: NidsModel::load fails, the thread returns and its
\* receiver rx_in is dropped together with whatever was queued
ClassifierLoadFails ==
    /\ cls_pc = "load"
    /\ cls_pc' = "exited"
    /\ rx_in_alive' = FALSE
    /\ classifier_chan' = <<>>
    /\ UNCHANGED <<cls_flow, cls_bin, cls_multi, bin_runs, multi_runs,
                   cls_taken, out_chan, dropped>>
    /\ UNCHANGED <<keyVars, recVars, engVars, thrVars>>

Init == InitKey /\ InitRec /\ InitEng /\ InitChan /\ InitCls /\ InitThr

Next ==
    \/ Capture
    \/ EnginePacket
    \/ EngineExpireTick
    \/ EngineStatsTick
    \/ ClassifierLoadFails

Spec == Init /\ [][Next]_vars


\* ------------------------------------------------------------------------
\* One scripted TCP conversation through capture and engine (SpecConv)
\* ------------------------------------------------------------------------
\* tcp flag bytes of the segments
SYN == 2
SYN_ACK == 18
ACK == 16
PSH_ACK == 24
FIN_ACK == 17

\* spacing of the conversation's frames, in microseconds
ConvStep == 1000

\* the two ways the client and the server can sit relative to the canonical
\* order of the key: the client is the smaller or the larger endpoint
ConvClients == {<<1, 2, 1, 2>>, <<2, 1, 2, 1>>}

\* (sent by the client?, (flags, payload)) of the six segments: SYN,
\* SYN+ACK, ACK, PSH+ACK with 100 bytes, ACK, FIN+ACK
ConvScript ==
    << <<TRUE, <<SYN, 0>>>>, <<FALSE, <<SYN_ACK, 0>>>>, <<TRUE, <<ACK, 0>>>>,
       <<TRUE, <<PSH_ACK, 100>>>>, <<FALSE, <<ACK, 0>>>>, <<TRUE, <<FIN_ACK, 0>>>> >>

Reverse(w) == <<w[2], w[1], w[4], w[3]>>

\* the i-th frame of the conversation whose client tuple is c
ConvFrame(c, i) ==
    Frame(T0 + (i - 1) * ConvStep,
          IF ConvScript[i][1] THEN c ELSE Reverse(c),
          ConvScript[i][2])

\* wall-clock readings of the expiry tick while the conversation lasts: not
\* before any of its frames, and far from the flow timeout
ConvReadings ==
    {T0 + Len(ConvScript) * ConvStep, T0 + (Len(ConvScript) + 1) * ConvStep}

\* PacketSniffer::packet_handler on the next frame of the conversation;
\* key_in holds the client's tuple.  try_send queues the packet behind
\* those the engine has not taken yet.
CaptureConversation ==
    /\ captured < Len(ConvScript)
    /\ LET f == ConvFrame(key_in, captured + 1)
       IN  /\ packet_chan' = Append(packet_chan, parse_packet(f))
           /\ wire_reply' = Append(wire_reply, WireSrc(f))
    /\ captured' = captured + 1
    /\ UNCHANGED <<running, flows, start_time, last_rate_us, pkts_acc,
                   bytes_acc, total_pkts, total_bytes, stats_chan, latest,
                   last, next_uid, sent_uids>>
    /\ UNCHANGED <<keyVars, recVars, chanVars, clsVars, thrVars>>

InitV ==
    /\ key_in \in ConvClients /\ key_fwd = {} /\ key_rev = {}
    /\ InitRec /\ InitEng /\ InitChan /\ InitCls /\ InitThr

NextV ==
    \/ CaptureConversation
    \/ EnginePacket
    \/ EngineExpireTickAt(ConvReadings)
    \/ EngineStatsTick

SpecConv == InitV /\ [][NextV]_vars

\* the same conversation with several stats ticks while it lasts (SpecTick)
EngineStatsTicks ==
    /\ running
    /\ EngineStatsStepUpTo(MaxTicks)
    /\ UNCHANGED thrVars

NextT ==
    \/ CaptureConversation
    \/ EnginePacket
    \/ EngineExpireTickAt(ConvReadings)
    \/ EngineStatsTicks

SpecTick == InitV /\ [][NextT]_vars


\* the first frames of the conversation reach the engine
CaptureOpening == captured < MaxStopFrames /\ CaptureConversation

\* the wall-clock reading of the expiry tick
StopReadings == {T0 + Len(ConvScript) * ConvStep}

EngineServePacket == EngineServed /\ EnginePacketStep
\* expire_tick and stats_tick are crossbeam tick channels: one of them is
\* ready at the latest a second after the select started
EngineServeExpire == EngineServed /\ EngineExpireStep(StopReadings)
EngineServeStats == EngineServed /\ EngineStatsStep

\* the processor on the conversation, with stop_processor called at any
\* moment
NextS ==
    \/ CaptureOpening
    \/ EngineTop
    \/ EngineServePacket
    \/ EngineServeExpire
    \/ EngineServeStats
    \/ PublisherTop
    \/ PublisherRecv
    \/ PublisherEmitTick
    \/ StopProcessor
    \/ JoinProcessing
    \/ JoinPublisher

SpecStop == InitV /\ [][NextS]_vars

\* the engine feeding the publisher, with the publisher's history (SpecPub)
NextP ==
    \/ CaptureOpening
    \/ EnginePacket
    \/ EngineStatsTick
    \/ PublisherTop
    \/ PublisherRecvCounted
    \/ PublisherEmitRecorded

SpecPub == InitV /\ [][NextP]_vars

\* A running engine under traffic that never pauses (SpecExpire).  The
\* frames of the conversation's opening go through the packet branch; the
\* packets of the other flows, which arrive for ever, are kept only as what
\* they are to this flow's record: a turn of the select that is not given
\* to a tick (their records and the lifetime counters are left out, no
\* expiry decision of this flow reads them).
EngineServeOther ==
    /\ EngineServed
    /\ UNCHANGED <<keyVars, recVars, engVars, chanVars, clsVars>>

\* wall-clock readings of the expiry tick: one while the flow is fresh, one
\* when its last frame is 120 s old
EarlyReading == T0 + (MaxStopFrames - 1) * ConvStep
LateReading == T0 + (MaxStopFrames - 1) * ConvStep + FLOW_TIMEOUT_US

EngineServeExpireEarly == EngineServed /\ EngineExpireStep({EarlyReading})
EngineServeExpireLate == EngineServed /\ EngineExpireStep({LateReading})

NextE ==
    \/ CaptureOpening
    \/ EngineTop
    \/ EngineServePacket
    \/ EngineServeOther
    \/ EngineServeExpireEarly
    \/ EngineServeExpireLate
    \/ EngineServeStats

SpecExpire == InitV /\ [][NextE]_vars

\* the engine thread is scheduled; the clock advances, so that from some
\* moment on the tick reads a time 120 s past the flow's last frame; and
\* crossbeam's select! picks at random among the operations that are ready,
\* so a tick that is ready at every select is picked at one of them
SpecExpireFair ==
    /\ SpecExpire
    /\ WF_vars(EngineTop)
    /\ SF_vars(EngineServeExpireLate)

\* both threads are scheduled, the tick channels deliver, and a join returns
\* once its thread has ended
SpecStopFair ==
    /\ SpecStop
    /\ WF_vars(EngineTop) /\ WF_vars(EngineServeExpire)
    /\ WF_vars(PublisherTop) /\ WF_vars(PublisherEmitTick)
    /\ WF_vars(JoinProcessing) /\ WF_vars(JoinPublisher)

\* ------------------------------------------------------------------------
\* A train of data segments from one sender, then the flow closes (SpecClose)
\* ------------------------------------------------------------------------
\* (tcp flags, payload bytes) of a FIN|PSH|ACK segment that carries data
FinDataShape == <<25, 100>>

\* the frames that can follow BULK_THRESHOLD data frames: a FIN with data
\* right after them, or a data frame more than the flow timeout after the
\* start of the flow
TrainClosers(c) ==
    { Frame(T0 + BULK_THRESHOLD * ConvStep, c, FinDataShape),
      Frame(T0 + FLOW_TIMEOUT_US + 1, c, DataShape) }

\* wall-clock readings of the expiry tick: just after the data frames, and
\* the flow timeout after the last of them
CloseReadings ==
    { T0 + BULK_THRESHOLD * ConvStep,
      T0 + (BULK_THRESHOLD - 1) * ConvStep + FLOW_TIMEOUT_US }

\* PacketSniffer::packet_handler on the next frame of the train; key_in
\* holds the sender's tuple
CaptureTrain ==
    /\ captured <= BULK_THRESHOLD
    /\ \E f \in IF captured < BULK_THRESHOLD
                THEN {Frame(T0 + captured * ConvStep, key_in, DataShape)}
                ELSE TrainClosers(key_in) :
          /\ packet_chan' = Append(packet_chan, parse_packet(f))
          /\ wire_reply' = Append(wire_reply, WireSrc(f))
    /\ captured' = captured + 1
    /\ UNCHANGED <<running, flows, start_time, last_rate_us, pkts_acc,
                   bytes_acc, total_pkts, total_bytes, stats_chan, latest,
                   last, next_uid, sent_uids>>
    /\ UNCHANGED <<keyVars, recVars, chanVars, clsVars, thrVars>>

NextX ==
    \/ CaptureTrain
    \/ EnginePacket
    \/ EngineExpireTickAt(CloseReadings)
    \/ EngineStatsTick

SpecClose == InitV /\ [][NextX]_vars


\* ------------------------------------------------------------------------
\* FlowKey::new on its own (SpecKey)
\* ------------------------------------------------------------------------
KeyIps == {1, 2, 3}
KeyPorts == {1, 2}

InitKeyInputs ==
    /\ key_in \in KeyIps \X KeyIps \X KeyPorts \X KeyPorts
    /\ key_fwd = {}
    /\ key_rev = {}

\* FlowKey::new(a, b, pa, pb, p)
NewKey ==
    /\ key_fwd = {}
    /\ key_fwd' = {FlowKeyNew(key_in[1], key_in[2], key_in[3], key_in[4], TCP_PROTOCOL)}
    /\ UNCHANGED <<key_in, key_rev>>
    /\ UNCHANGED <<recVars, engVars, chanVars, clsVars, thrVars>>

\* FlowKey::new(b, a, pb, pa, p): the key of the reply
NewKeyOfReply ==
    /\ key_rev = {}
    /\ key_rev' = {FlowKeyNew(key_in[2], key_in[1], key_in[4], key_in[3], TCP_PROTOCOL)}
    /\ UNCHANGED <<key_in, key_fwd>>
    /\ UNCHANGED <<recVars, engVars, chanVars, clsVars, thrVars>>

InitK == InitKeyInputs /\ InitRec /\ InitEng /\ InitChan /\ InitCls /\ InitThr
NextK == NewKey \/ NewKeyOfReply
SpecKey == InitK /\ [][NextK]_vars

\* ------------------------------------------------------------------------
\* One FlowRecord driven through update_tcp_flow (SpecFlow)
\* ------------------------------------------------------------------------
\* timestamps of the packets: the start, 1 ms and 6 s later
FlowTimes == {T0, T0 + 1000, T0 + 6000000}
\* (tcp flags, payload bytes): SYN, PSH|ACK with data
FlowShapes == {<<2, 0>>, DataShape}
\* the key of the record and the two senders a packet of the flow can have
RecKey == FlowKeyNew(1, 2, 1, 2, TCP_PROTOCOL)
RecTuples == {<<1, 2, 1, 2>>, <<2, 1, 2, 1>>}

InitRecInputs ==
    /\ \E t \in FlowTimes, d \in {"Forward", "Backward"} :
          rec = FlowRecordNew(RecKey, t, d, 1)
    /\ rec_updates = 0
    /\ rec_hist = <<>>

\* FlowRecord::update_tcp_flow called with a packet of either direction
UpdateTcpFlow ==
    /\ rec_updates < MaxUpdates
    /\ \E t \in FlowTimes, w \in RecTuples, sh \in FlowShapes :
          rec' = update_tcp_flow(rec, t, w[1], w[2], w[3], w[4], TCP_PROTOCOL,
                                 ETH_HEADER_LEN + IP_HEADER_LEN + TCP_HEADER_LEN + sh[2],
                                 sh[2], sh[1], WINDOW_SIZE,
                                 ETH_HEADER_LEN + IP_HEADER_LEN + TCP_HEADER_LEN)
    /\ rec_updates' = rec_updates + 1
    /\ UNCHANGED <<rec_hist, keyVars, engVars, chanVars, clsVars, thrVars>>

InitF == InitKey /\ InitRecInputs /\ InitEng /\ InitChan /\ InitCls /\ InitThr
NextF == UpdateTcpFlow
SpecFlow == InitF /\ [][NextF]_vars

\* ------------------------------------------------------------------------
\* update_tcp_flags on the record of a long flow (SpecFlags)
\* ------------------------------------------------------------------------
\* u16::MAX, the largest value of a flag counter
U16_MAX == 65535

\* flag bytes that together carry each of the eight flags: ACK, PSH|ACK,
\* SYN|ECE|CWR, FIN|RST|URG
TrainShapes == {ACK, PSH_ACK}
FlagShapes == {ACK, PSH_ACK, 194, 37}
\* packets the flow has already seen when the model takes it up
TrainLengths == {0, U16_MAX - 1}

\* The record of a new flow after n <= u16::MAX Forward packets with the
\* flag byte tcp_flags, as far as update_tcp_flags is concerned: each counter
\* of a flag in the byte has been incremented n times from FlowRecord::new's
\* 0.
AfterTrain(n, tcp_flags) ==
    LET c(bit) == IF HasFlag(tcp_flags, bit) THEN n ELSE 0
    IN  [FlowRecordNew(RecKey, T0, "Forward", 1) EXCEPT
           !.fin_flag_count = c(1), !.syn_flag_count = c(2),
           !.rst_flag_count = c(4), !.psh_flag_count = c(8),
           !.fwd_psh_flags = c(8), !.ack_flag_count = c(16),
           !.urg_flag_count = c(32), !.fwd_urg_flags = c(32),
           !.ece_flag_count = c(64), !.cwr_flag_count = c(128)]

InitG ==
    /\ InitKey /\ InitEng /\ InitChan /\ InitCls /\ InitThr
    /\ \E n \in TrainLengths, f \in TrainShapes :
          /\ rec = AfterTrain(n, f)
          /\ rec_hist = <<[n |-> n, tcp_flags |-> f, direction |-> "Forward"]>>
    /\ rec_updates = 0

\* FlowRecord::update_tcp_flags called for one more packet
UpdateTcpFlags ==
    /\ rec_updates < MaxFlagPackets
    /\ \E f \in FlagShapes, d \in {"Forward", "Backward"} :
          /\ rec' = update_tcp_flags(rec, f, d)
          /\ rec_hist' = Append(rec_hist,
                                [n |-> 1, tcp_flags |-> f, direction |-> d])
    /\ rec_updates' = rec_updates + 1
    /\ UNCHANGED <<keyVars, engVars, chanVars, clsVars, thrVars>>

NextG == UpdateTcpFlags
SpecFlags == InitG /\ [][NextG]_vars

\* ------------------------------------------------------------------------
\* One FlowRecord fed a train of evenly spaced packets (SpecBulk)
\* ------------------------------------------------------------------------
\* spacing of the packets, in microseconds
BulkStep == 1000
\* payload bytes of a packet: a pure ACK, and two sizes of data segment
BulkPayloads == {0, 500, 1000}

InitB ==
    /\ InitKey /\ InitEng /\ InitChan /\ InitCls /\ InitThr
    /\ rec = FlowRecordNew(RecKey, T0, "Forward", 1)
    /\ rec_updates = 0
    /\ rec_hist = <<>>

\* FlowRecord::update_tcp_flow called with the next packet of a train of
\* at most Limit packets, sent by either endpoint
BulkPacketOf(Limit, Payloads) ==
    /\ rec_updates < Limit
    /\ \E w \in RecTuples, payload \in Payloads :
          LET timestamp == T0 + rec_updates * BulkStep
              header_len == ETH_HEADER_LEN + IP_HEADER_LEN + TCP_HEADER_LEN
          IN  /\ rec' = update_tcp_flow(rec, timestamp, w[1], w[2], w[3], w[4],
                                        TCP_PROTOCOL, header_len + payload, payload,
                                        ACK, WINDOW_SIZE, header_len)
              /\ rec_hist' = Append(rec_hist,
                     [direction |-> get_flow_direction(rec, w[1], w[2], w[3], w[4]),
                      payload_len |-> payload, timestamp |-> timestamp])
    /\ rec_updates' = rec_updates + 1
    /\ UNCHANGED <<keyVars, engVars, chanVars, clsVars, thrVars>>

BulkPacket == BulkPacketOf(MaxBulkPackets, BulkPayloads)

NextB == BulkPacket
SpecBulk == InitB /\ [][NextB]_vars

\* a longer train of pure ACKs and data segments of one size: long enough
\* for a short run, a change of direction, a run that is committed, and
\* the change of direction that commits it (SpecRuns)
RunPayloads == {0, 500}
RunPacket == BulkPacketOf(MaxRunPackets, RunPayloads)
NextR == RunPacket
SpecRuns == InitB /\ [][NextR]_vars

\* ------------------------------------------------------------------------
\* Feature extraction (classifier.rs)
\* ------------------------------------------------------------------------
\* the largest power of two not above v (v >= 1)
RECURSIVE Pow2Floor(_)
Pow2Floor(v) == IF v < 2 THEN 1 ELSE 2 * Pow2Floor(v \div 2)

\* `v as f32` for an unsigned integer: exact up to 2^24, above it rounded to
\* the nearest value with a 24-bit significand, ties to even
ToF32(v) ==
    IF v < F32_EXACT THEN v
    ELSE LET ulp == Pow2Floor(v) \div (F32_EXACT \div 2)
             lo == (v \div ulp) * ulp
             rest == v - lo
         IN  IF 2 * rest < ulp THEN lo
             ELSE IF 2 * rest > ulp THEN lo + ulp
             ELSE IF (lo \div ulp) % 2 = 0 THEN lo ELSE lo + ulp

\* the value of a feature slot.  An integer field cast with `as f32`:
F32OfInt(v) == [kind |-> "int", v |-> ToF32(v)]
\* as_f32 of fwd_seg_size_min: 0.0 when it is not finite
F32OfSegSizeMin(v) == [kind |-> "int", v |-> IF v = F64_INFINITY THEN 0 ELSE ToF32(v)]
\* as_f32 of a mean, of a std or variance, of a quotient, of a rate: these
\* are finite, and are kept as the record describes them
F32OfMean(w) == [kind |-> "mean", w |-> w]
F32OfStd(w, std) == [kind |-> "std", w |-> w, std |-> std]
F32OfRat(q) == [kind |-> "rat", q |-> q]
F32OfRate(rt) == [kind |-> "rate", rate |-> rt]

\* whether a feature slot holds 0.0
FeatureIsZero(f) ==
    CASE f.kind = "int" -> f.v = 0
      [] f.kind = "mean" -> WelfordMean(f.w).num = 0
      [] f.kind = "std" -> StdSquared(f.w, f.std).num = 0
      [] f.kind = "rat" -> f.q.num = 0
      [] f.kind = "rate" -> f.rate.amount = 0

\* extract_l1_features: out[i] is element i + 1
extract_l1_features(flow) ==
    << F32OfInt(flow.flow_duration),
       F32OfInt(flow.total_fwd_bytes),
       F32OfInt(flow.total_bwd_bytes),
       F32OfInt(flow.fwd_packet_len_min),
       F32OfStd(flow.fwd_packet_len_welford, flow.fwd_packet_len_std),
       F32OfInt(flow.bwd_packet_len_max),
       F32OfInt(flow.bwd_packet_len_min),
       F32OfRate(flow.flow_bytes_per_sec),
       F32OfRate(flow.flow_packets_per_sec),
       F32OfMean(flow.flow_iat_welford),
       F32OfStd(flow.flow_iat_welford, flow.flow_iat_std),
       F32OfInt(flow.fwd_iat_total),
       F32OfMean(flow.fwd_iat_welford),
       F32OfStd(flow.fwd_iat_welford, flow.fwd_iat_std),
       F32OfInt(flow.fwd_iat_max),
       F32OfInt(flow.fwd_iat_min),
       F32OfInt(flow.bwd_iat_total),
       F32OfMean(flow.bwd_iat_welford),
       F32OfStd(flow.bwd_iat_welford, flow.bwd_iat_std),
       F32OfInt(flow.fwd_psh_flags),
       F32OfInt(flow.fwd_urg_flags),
       F32OfInt(flow.bwd_header_len),
       F32OfRate(flow.bwd_packets_per_sec),
       F32OfInt(flow.packet_len_min),
       F32OfInt(flow.packet_len_max),
       F32OfMean(flow.packet_len_welford),
       F32OfInt(flow.fin_flag_count),
       F32OfInt(flow.syn_flag_count),
       F32OfInt(flow.rst_flag_count),
       F32OfInt(flow.psh_flag_count),
       F32OfInt(flow.urg_flag_count),
       F32OfInt(flow.cwr_flag_count),
       F32OfInt(flow.ece_flag_count),
       F32OfRat(flow.down_up_ratio),
       F32OfRat(flow.bwd_bytes_bulk_avg),
       F32OfRat(flow.bwd_packet_bulk_avg),
       F32OfRate(flow.bwd_bulk_rate_avg),
       F32OfInt(flow.subflow_fwd_packets),
       F32OfInt(flow.subflow_fwd_bytes),
       F32OfInt(flow.subflow_bwd_packets),
       F32OfInt(flow.fwd_init_win_bytes),
       F32OfInt(flow.bwd_init_win_bytes),
       F32OfInt(flow.fwd_act_data_packets),
       F32OfSegSizeMin(flow.fwd_seg_size_min),
       F32OfMean(flow.active_welford),
       F32OfStd(flow.active_welford, flow.active_std),
       F32OfStd(flow.idle_welford, flow.idle_std),
       F32OfInt(flow.idle_min) >>

\* extract_l2_features: out[i] is element i + 1
extract_l2_features(flow) ==
    << F32OfInt(flow.flow_duration),
       F32OfInt(flow.total_fwd_packets),
       F32OfInt(flow.fwd_packet_len_max),
       F32OfInt(flow.fwd_packet_len_min),
       F32OfInt(flow.bwd_packet_len_min),
       F32OfMean(flow.bwd_packet_len_welford),
       F32OfStd(flow.bwd_packet_len_welford, flow.bwd_packet_len_std),
       F32OfRate(flow.flow_bytes_per_sec),
       F32OfRate(flow.flow_packets_per_sec),
       F32OfMean(flow.flow_iat_welford),
       F32OfStd(flow.flow_iat_welford, flow.flow_iat_std),
       F32OfInt(flow.flow_iat_max),
       F32OfInt(flow.flow_iat_min),
       F32OfMean(flow.fwd_iat_welford),
       F32OfStd(flow.fwd_iat_welford, flow.fwd_iat_std),
       F32OfInt(flow.fwd_iat_min),
       F32OfInt(flow.bwd_iat_total),
       F32OfMean(flow.bwd_iat_welford),
       F32OfStd(flow.bwd_iat_welford, flow.bwd_iat_std),
       F32OfInt(flow.bwd_iat_max),
       F32OfInt(flow.bwd_iat_min),
       F32OfInt(flow.fwd_psh_flags),
       F32OfInt(flow.fwd_urg_flags),
       F32OfRate(flow.bwd_packets_per_sec),
       F32OfInt(flow.packet_len_min),
       F32OfInt(flow.packet_len_max),
       F32OfStd(flow.packet_len_welford, flow.packet_len_variance),
       F32OfInt(flow.fin_flag_count),
       F32OfInt(flow.syn_flag_count),
       F32OfInt(flow.rst_flag_count),
       F32OfInt(flow.psh_flag_count),
       F32OfInt(flow.ack_flag_count),
       F32OfInt(flow.urg_flag_count),
       F32OfInt(flow.cwr_flag_count),
       F32OfInt(flow.ece_flag_count),
       F32OfRat(flow.down_up_ratio),
       F32OfRat(flow.avg_packet_size),
       F32OfRat(flow.fwd_segment_size_avg),
       F32OfRat(flow.bwd_bytes_bulk_avg),
       F32OfRat(flow.bwd_packet_bulk_avg),
       F32OfRate(flow.bwd_bulk_rate_avg),
       F32OfInt(flow.subflow_fwd_packets),
       F32OfInt(flow.subflow_fwd_bytes),
       F32OfInt(flow.subflow_bwd_packets),
       F32OfInt(flow.subflow_bwd_bytes),
       F32OfInt(flow.fwd_init_win_bytes),
       F32OfInt(flow.bwd_init_win_bytes),
       F32OfInt(flow.fwd_act_data_packets),
       F32OfSegSizeMin(flow.fwd_seg_size_min),
       F32OfStd(flow.active_welford, flow.active_std),
       F32OfInt(flow.active_max),
       F32OfStd(flow.idle_welford, flow.idle_std) >>

\* ------------------------------------------------------------------------
\* The classifier thread (SpecCls)
\* ------------------------------------------------------------------------
\* What an ONNX session can hand back, probabilities in hundredths:
\* a failed run, or a vector of any length
BinaryOutputs ==
    { [fails |-> TRUE, probs |-> <<>>],
      [fails |-> FALSE, probs |-> <<100>>],
      [fails |-> FALSE, probs |-> <<16, 84>>],
      [fails |-> FALSE, probs |-> <<15, 85>>],
      [fails |-> FALSE, probs |-> <<0, 100>>] }
MultiOutputs ==
    { [fails |-> TRUE, probs |-> <<>>],
      [fails |-> FALSE, probs |-> <<>>],
      [fails |-> FALSE, probs |-> <<10, 70, 20>>],
      [fails |-> FALSE, probs |-> <<40, 20, 40>>] }

binary_pred_label_Strict(p_attack) == IF p_attack > ATTACK_THRESHOLD THEN 1 ELSE 0

\* run_binary: if p_attack >= ATTACK_THRESHOLD { 1 } else { 0 }
binary_pred_label(p_attack) == IF p_attack >= ATTACK_THRESHOLD THEN 1 ELSE 0

\* run_binary: Err when the session fails or gives fewer than two
\* probabilities, otherwise the Inference over probs[1]
run_binary(out) ==
    IF out.fails \/ Len(out.probs) < 2
    THEN [ok |-> FALSE, inf |-> NoInference]
    ELSE [ok |-> TRUE,
          inf |-> [present |-> TRUE,
                   pred_label |-> binary_pred_label(out.probs[2]),
                   probs |-> out.probs]]

\* Iterator::max_by over enumerate(): the last of several equal maxima,
\* as a 0-based index
max_by_index(probs) ==
    (CHOOSE i \in 1..Len(probs) :
        \A j \in 1..Len(probs) :
            /\ probs[j] <= probs[i]
            /\ j > i => probs[j] < probs[i]) - 1

\* run_multiclass: Err when the session fails or the vector is empty
run_multiclass(out) ==
    IF out.fails \/ out.probs = <<>>
    THEN [ok |-> FALSE, inf |-> NoInference]
    ELSE [ok |-> TRUE,
          inf |-> [present |-> TRUE,
                   pred_label |-> max_by_index(out.probs),
                   probs |-> out.probs]]

runs_multiclass_Always(bin) == TRUE

\* classify_flow: if bin.pred_label == 1 { run_multiclass } else { None }
runs_multiclass(bin) == bin.pred_label = 1

\* classify_flow: the MultiResult or the error of the first failing stage,
\* with the number of times each stage ran
classify_flow(bin_out, multi_out) ==
    LET b == run_binary(bin_out)
        m == run_multiclass(multi_out)
    IN  IF ~b.ok
        THEN [ok |-> FALSE, bin |-> NoInference, multi |-> NoInference,
              bin_runs |-> 1, multi_runs |-> 0]
        ELSE IF runs_multiclass(b.inf)
        THEN [ok |-> m.ok, bin |-> b.inf, multi |-> m.inf,
              bin_runs |-> 1, multi_runs |-> 1]
        ELSE [ok |-> TRUE, bin |-> b.inf, multi |-> NoInference,
              bin_runs |-> 1, multi_runs |-> 0]

\* the engine sends a finished flow on classifier_tx
FlowArrives ==
    /\ next_uid <= MaxFlows
    /\ classifier_chan' = ChanSend(classifier_chan, rx_in_alive,
                                   FlowRecordNew(RecKey, T0, "Forward", next_uid))
    /\ next_uid' = next_uid + 1
    /\ UNCHANGED <<packet_chan, wire_reply, captured, running, flows,
                   start_time, last_rate_us, pkts_acc, bytes_acc, total_pkts,
                   total_bytes, stats_chan, latest, last, sent_uids>>
    /\ UNCHANGED <<rx_in_alive, keyVars, recVars, clsVars, thrVars>>

\* spawn_classifier: NidsModel::load succeeds, the thread enters its loop
ClassifierLoadOk ==
    /\ cls_pc = "load"
    /\ cls_pc' = "ready"
    /\ UNCHANGED <<cls_flow, cls_bin, cls_multi, bin_runs, multi_runs,
                   cls_taken, out_chan, dropped>>
    /\ UNCHANGED <<keyVars, recVars, engVars, chanVars, thrVars>>

\* a plausible slip: the thread returns at the first classification error
after_classify_error_Exit == "exited"

\* spawn_classifier: Err(e) => eprintln!(..), and the while loop goes on
after_classify_error == "ready"

\* one iteration of the thread's loop: rx_in.recv(), classify_flow, then
\* tx_out.send of (flow, result) or the error message
ClassifierIteration ==
    /\ cls_pc = "ready"
    /\ classifier_chan # <<>>
    /\ \E bin_out \in BinaryOutputs, multi_out \in MultiOutputs :
          LET flow == Head(classifier_chan)
              res == classify_flow(bin_out, multi_out)
          IN  /\ classifier_chan' = Tail(classifier_chan)
              /\ cls_flow' = flow
              /\ cls_taken' = cls_taken + 1
              /\ cls_bin' = res.bin
              /\ cls_multi' = res.multi
              /\ bin_runs' = res.bin_runs
              /\ multi_runs' = res.multi_runs
              /\ out_chan' = IF res.ok
                             THEN Append(out_chan,
                                         [flow |-> flow,
                                          result |-> [bin |-> res.bin, multi |-> res.multi]])
                             ELSE out_chan
              /\ dropped' = IF res.ok THEN dropped ELSE dropped + 1
              /\ cls_pc' = IF res.ok THEN "ready" ELSE after_classify_error
    /\ UNCHANGED <<rx_in_alive, keyVars, recVars, engVars, thrVars>>

InitC == InitKey /\ InitRec /\ InitEng /\ InitChan /\ InitCls /\ InitThr
NextC ==
    \/ FlowArrives
    \/ ClassifierLoadOk
    \/ ClassifierLoadFails
    \/ ClassifierIteration
SpecCls == InitC /\ [][NextC]_vars
\* the classifier thread is an operating-system thread of its own: it is
\* scheduled whenever it can take a step
SpecClsFair == SpecCls /\ WF_vars(ClassifierIteration)

\* ------------------------------------------------------------------------
\* The whole pipeline and stop_system (SpecSys)
\* ------------------------------------------------------------------------
\* PacketSniffer::packet_handler while the sniffer runs: a FIN|ACK frame of
\* the conversation's client, which ends its flow at once
CaptureFin ==
    /\ stop_pc = "idle"
    /\ captured < MaxStopFrames
    /\ LET f == Frame(T0, key_in, FinShape)
       IN  /\ packet_chan' = Append(packet_chan, parse_packet(f))
           /\ wire_reply' = Append(wire_reply, WireSrc(f))
    /\ captured' = captured + 1
    /\ UNCHANGED <<running, flows, start_time, last_rate_us, pkts_acc,
                   bytes_acc, total_pkts, total_bytes, stats_chan, latest,
                   last, next_uid, sent_uids>>
    /\ UNCHANGED <<keyVars, recVars, chanVars, clsVars, thrVars>>

\* stop_system: sniffer.stop_sniffer() clears sniffer_running and joins the
\* capture thread, whose loop never blocks
StopSniffer ==
    /\ stop_pc = "idle"
    /\ stop_pc' = "sniffer_stopped"
    /\ UNCHANGED <<eng_pc, pub_pc, eng_after, pub_after, sysVars, pubVars>>
    /\ UNCHANGED <<keyVars, recVars, engVars, chanVars, clsVars>>

\* stop_system: processor.stop_processor()
StopSystemProcessor == stop_pc = "sniffer_stopped" /\ StopProcessor

\* the Senders of the classifier's input channel that exist: the one in the
\* ClassifierHandles kept in AppState, and the clone the engine thread owns
InputSenders ==
    (IF handles_held THEN {"AppState"} ELSE {})
    \cup (IF eng_pc # "exited" THEN {"engine"} ELSE {})

\* spawn_classifier: rx_in.recv() returns Err because every Sender is gone;
\* the thread leaves its loop and ends, dropping tx_out
ClassifierRecvClosed ==
    /\ cls_pc = "ready"
    /\ classifier_chan = <<>>
    /\ InputSenders = {}
    /\ cls_pc' = "exited"
    /\ rx_in_alive' = FALSE
    /\ UNCHANGED <<classifier_chan, cls_flow, cls_bin, cls_multi, bin_runs,
                   multi_runs, cls_taken, out_chan, dropped>>
    /\ UNCHANGED <<keyVars, recVars, engVars, thrVars>>

\* start_system, the thread that receives the classified flows: rx.recv()
\* gives a result, which is emitted to the UI
UiForward ==
    /\ ui_pc = "recv"
    /\ out_chan # <<>>
    /\ out_chan' = Tail(out_chan)
    /\ UNCHANGED <<cls_pc, cls_flow, cls_bin, cls_multi, bin_runs,
                   multi_runs, cls_taken, dropped>>
    /\ UNCHANGED <<keyVars, recVars, engVars, chanVars, thrVars>>

\* the same thread: rx.recv() returns Err because the classifier thread, the
\* only owner of tx_out, has ended
UiRecvClosed ==
    /\ ui_pc = "recv"
    /\ out_chan = <<>>
    /\ cls_pc = "exited"
    /\ ui_pc' = "exited"
    /\ UNCHANGED <<eng_pc, pub_pc, stop_pc, eng_after, pub_after, handles_held, appVars, pubVars>>
    /\ UNCHANGED <<keyVars, recVars, engVars, chanVars, clsVars>>

\* a later start_system stores the handles of a new classifier in AppState,
\* which drops the handles kept so far (the threads of the new system are
\* not part of this model)
ReplaceHandles ==
    /\ stop_pc = "returned"
    /\ handles_held
    /\ handles_held' = FALSE
    /\ UNCHANGED <<eng_pc, pub_pc, stop_pc, eng_after, pub_after, ui_pc, appVars, pubVars>>
    /\ UNCHANGED <<keyVars, recVars, engVars, chanVars, clsVars>>

NextY ==
    \/ CaptureFin
    \/ EngineTop
    \/ EngineServePacket
    \/ EngineServeExpire
    \/ EngineServeStats
    \/ PublisherTop
    \/ PublisherRecv
    \/ PublisherEmitTick
    \/ ClassifierLoadOk
    \/ ClassifierLoadFails
    \/ ClassifierIteration
    \/ ClassifierRecvClosed
    \/ UiForward
    \/ UiRecvClosed
    \/ StopSniffer
    \/ StopSystemProcessor
    \/ JoinProcessing
    \/ JoinPublisher
    \/ ReplaceHandles

SpecSys == InitV /\ [][NextY]_vars

\* every thread is scheduled, the tick channels deliver, the joins return;
\* nothing obliges the user to start the system again
SpecSysFair ==
    /\ SpecSys
    /\ WF_vars(EngineTop) /\ WF_vars(EngineServeExpire)
    /\ WF_vars(PublisherTop) /\ WF_vars(PublisherEmitTick)
    /\ WF_vars(ClassifierLoadOk \/ ClassifierLoadFails)
    /\ WF_vars(ClassifierIteration) /\ WF_vars(ClassifierRecvClosed)
    /\ WF_vars(UiForward) /\ WF_vars(UiRecvClosed)
    /\ WF_vars(StopSystemProcessor)
    /\ WF_vars(JoinProcessing) /\ WF_vars(JoinPublisher)

\* ------------------------------------------------------------------------
\* start_system and stop_system called one after the other (SpecStart)
\* ------------------------------------------------------------------------
\* Both are synchronous commands; each call runs to its end before the next
\* one starts.  A system is what one successful start_system has spawned:
\* the capture thread with its sniffer_running flag, the engine and the
\* publisher threads with the processor's running flag.
NewSystem ==
    [sniffer_running |-> TRUE, cap |-> "loop",
     running |-> TRUE, eng |-> "check", pub |-> "check"]

\* what SpecStart leaves alone
pipeVars == <<keyVars, recVars, engVars, chanVars, clsVars, eng_pc, pub_pc,
              stop_pc, eng_after, pub_after, handles_held, ui_pc, pubVars>>

CommandFree == cmd.pc \in {"none", "started", "stopped"}

\* start_system, every step succeeding: start_sniffer and start_processor
\* spawn the threads of a new system, then `*state_sniffer = Some(sniffer)`
\* and `*state_processor = Some(processor)` overwrite whatever AppState
\* held.  The PacketSniffer and FeatureProcessor overwritten are dropped;
\* neither has a Drop impl, so their flags stay set and their JoinHandles
\* detach the threads.
StartSystem ==
    /\ CommandFree
    /\ Len(systems) < MaxStarts
    /\ systems' = Append(systems, NewSystem)
    /\ app_slot' = Len(systems) + 1
    /\ cmd' = [pc |-> "started", g |-> Len(systems) + 1]
    /\ UNCHANGED pipeVars

\* start_sniffer's thread: `while running.load(Ordering::Relaxed)` finds the
\* flag cleared
SnifferThreadExit ==
    /\ \E g \in DOMAIN systems :
          /\ systems[g].cap = "loop"
          /\ ~systems[g].sniffer_running
          /\ systems' = [systems EXCEPT ![g].cap = "exited"]
    /\ UNCHANGED <<app_slot, cmd, pipeVars>>

\* start_sniffer's thread: next_packet returns an error other than the
\* timeout, `break`
SnifferThreadError ==
    /\ \E g \in DOMAIN systems :
          /\ systems[g].cap = "loop"
          /\ systems[g].sniffer_running
          /\ systems' = [systems EXCEPT ![g].cap = "exited"]
    /\ UNCHANGED <<app_slot, cmd, pipeVars>>

\* processing_loop of one system: the top of the loop
EngineTopOf ==
    /\ \E g \in DOMAIN systems :
          /\ systems[g].eng = "check"
          /\ systems' = [systems EXCEPT ![g].eng = loop_top(systems[g].running)]
    /\ UNCHANGED <<app_slot, cmd, pipeVars>>

\* processing_loop of one system: the select has served an event
EngineServedOf ==
    /\ \E g \in DOMAIN systems :
          /\ systems[g].eng = "select"
          /\ systems' = [systems EXCEPT ![g].eng = "check"]
    /\ UNCHANGED <<app_slot, cmd, pipeVars>>

\* publisher_loop of one system: the top of the loop
PublisherTopOf ==
    /\ \E g \in DOMAIN systems :
          /\ systems[g].pub = "check"
          /\ systems' = [systems EXCEPT ![g].pub = loop_top(systems[g].running)]
    /\ UNCHANGED <<app_slot, cmd, pipeVars>>

\* publisher_loop of one system: the select has served an event
PublisherServedOf ==
    /\ \E g \in DOMAIN systems :
          /\ systems[g].pub = "select"
          /\ systems' = [systems EXCEPT ![g].pub = "check"]
    /\ UNCHANGED <<app_slot, cmd, pipeVars>>

\* stop_system with a system in AppState: sniffer_state.take() and
\* stop_sniffer's sniffer_running.swap(false); the join comes next
StopSystemTake ==
    /\ CommandFree
    /\ app_slot # 0
    /\ systems' = [systems EXCEPT ![app_slot].sniffer_running = FALSE]
    /\ cmd' = [pc |-> "join_sniffer", g |-> app_slot]
    /\ app_slot' = 0
    /\ UNCHANGED pipeVars

\* stop_system with AppState empty: both take() give None
StopSystemNothing ==
    /\ CommandFree
    /\ app_slot = 0
    /\ cmd' = [pc |-> "stopped", g |-> 0]
    /\ UNCHANGED <<systems, app_slot, pipeVars>>

\* stop_sniffer's join returns; processor_state.take() and stop_processor's
\* running.store(false)
StopSnifferJoined ==
    /\ cmd.pc = "join_sniffer"
    /\ systems[cmd.g].cap = "exited"
    /\ systems' = [systems EXCEPT ![cmd.g].running = FALSE]
    /\ cmd' = [cmd EXCEPT !.pc = "join_processing"]
    /\ UNCHANGED <<app_slot, pipeVars>>

\* stop_processor: processing_thread.take().join() returns
JoinProcessingOf ==
    /\ cmd.pc = "join_processing"
    /\ systems[cmd.g].eng = "exited"
    /\ cmd' = [cmd EXCEPT !.pc = "join_publisher"]
    /\ UNCHANGED <<systems, app_slot, pipeVars>>

\* stop_processor: publisher_thread.take().join() returns, and stop_system
\* returns Ok
JoinPublisherOf ==
    /\ cmd.pc = "join_publisher"
    /\ systems[cmd.g].pub = "exited"
    /\ cmd' = [cmd EXCEPT !.pc = "stopped"]
    /\ UNCHANGED <<systems, app_slot, pipeVars>>

NextA ==
    \/ StartSystem
    \/ SnifferThreadExit
    \/ SnifferThreadError
    \/ EngineTopOf
    \/ EngineServedOf
    \/ PublisherTopOf
    \/ PublisherServedOf
    \/ StopSystemTake
    \/ StopSystemNothing
    \/ StopSnifferJoined
    \/ JoinProcessingOf
    \/ JoinPublisherOf

SpecStart == Init /\ [][NextA]_vars

\* ------------------------------------------------------------------------
\* Properties
\* ------------------------------------------------------------------------
Canonical(k) == PairLE(k.ip_a, k.port_a, k.ip_b, k.port_b)

\* C1: a packet whose real source is the flow's canonical endpoint b is
\* counted Backward (backward packet count + 1, forward count unchanged),
\* and a packet whose real source is endpoint a is counted Forward.
\* The engine does not do this: it is stated here to be refuted.
C1_DirectionFollowsSender ==
    last.kind = "pkt" =>
        /\ last.wire_src = "b" =>
              /\ last.updated.total_bwd_packets = last.pre_bwd + 1
              /\ last.updated.total_fwd_packets = last.pre_fwd
        /\ last.wire_src = "a" =>
              /\ last.updated.total_fwd_packets = last.pre_fwd + 1
              /\ last.updated.total_bwd_packets = last.pre_bwd

\* C2: FlowKey::new(a, b, pa, pb, p) = FlowKey::new(b, a, pb, pa, p):
\* a connection and its reply get the same key.
C2_KeySymmetric ==
    (key_fwd # {} /\ key_rev # {}) => key_fwd = key_rev

C2_Witness ==
    /\ key_fwd # {}
    /\ key_rev # {}
    /\ <<key_in[1], key_in[3]>> # <<key_in[2], key_in[4]>>
    /\ \E k \in key_fwd : k.ip_a = key_in[2] /\ k.port_a = key_in[4]

\* C3: every key made by FlowKey::new and every key of the flow table has
\* (ip_a, port_a) <= (ip_b, port_b) in lexicographic order.
C3_KeysCanonical ==
    /\ \A k \in DOMAIN flows : Canonical(k)
    /\ \A i \in DOMAIN packet_chan : Canonical(packet_chan[i].flow_key)

C3_Witness ==
    /\ last.kind = "pkt"
    /\ last.wire_src = "b"
    /\ ~last.existed
    /\ last.key \in DOMAIN flows

\* C4: after every update_tcp_flow, whatever the directions of the packets,
\* total_packets = total_fwd_packets + total_bwd_packets and
\* total_bytes = total_fwd_bytes + total_bwd_bytes.
C4_TotalsAreSums ==
    /\ rec.total_packets = rec.total_fwd_packets + rec.total_bwd_packets
    /\ rec.total_bytes = rec.total_fwd_bytes + rec.total_bwd_bytes

C4_Witness ==
    /\ rec_updates = MaxUpdates
    /\ rec.total_fwd_packets >= 1
    /\ rec.total_bwd_packets >= 1
    /\ rec.total_fwd_bytes > 0
    /\ rec.total_bwd_bytes > 0

\* C5: after every update, with any sequence of packet timestamps,
\* flow_last_time >= flow_start_time and
\* flow_duration = flow_last_time - flow_start_time.
\* A packet stamped before the first one breaks both: stated to be refuted.
C5_DurationIsLastMinusStart ==
    /\ rec.flow_last_time >= rec.flow_start_time
    /\ rec.flow_duration = rec.flow_last_time - rec.flow_start_time

\* C6: when should_terminate is true for a packet (it carries FIN, or its
\* timestamp is more than 120 s after the flow's start) the record is
\* removed from the table and one copy, which includes that packet's
\* update, is sent to the classifier in the same step; when it is false
\* the record stays in the table and nothing is sent.
C6_TerminateRemovesAndSends ==
    last.kind = "pkt" =>
        /\ (last.has_fin \/ last.timestamp > last.updated.flow_start_time + FLOW_TIMEOUT_US)
              => last.terminate
        /\ last.terminate =>
              /\ last.key \notin DOMAIN flows
              /\ Len(last.sent) = 1
              /\ last.sent[1].total_packets = last.pre_total + 1
              /\ last.sent[1].flow_last_time = last.timestamp
              /\ last.sent[1] = last.updated
              /\ rx_in_alive =>
                    /\ classifier_chan # <<>>
                    /\ classifier_chan[Len(classifier_chan)] = last.sent[1]
        /\ ~last.terminate =>
              /\ last.key \in DOMAIN flows
              /\ flows[last.key] = last.updated
              /\ last.sent = <<>>

C6_Witness ==
    /\ last.kind = "pkt"
    /\ last.existed
    /\ ~last.has_fin
    /\ last.terminate
    /\ last.timestamp > last.updated.flow_start_time + FLOW_TIMEOUT_US
    /\ last.key \notin DOMAIN flows
    /\ rx_in_alive
    /\ classifier_chan # <<>>

\* C7: at an expiry tick every flow whose flow_last_time is older than
\* now - 120 s is removed from the table and enqueued for the classifier;
\* after the tick no such flow is left in the table.
C7_ExpiryRemovesOld ==
    last.kind = "expire" =>
        /\ \A k \in DOMAIN last.table :
              last.table[k].flow_last_time < last.now - FLOW_TIMEOUT_US =>
                  /\ k \notin DOMAIN flows
                  /\ \E i \in DOMAIN last.sent : last.sent[i] = last.table[k]
                  /\ rx_in_alive =>
                        \E i \in DOMAIN classifier_chan :
                            classifier_chan[i] = last.table[k]
        /\ \A k \in DOMAIN flows :
              ~(flows[k].flow_last_time < last.now - FLOW_TIMEOUT_US)

C7_Witness ==
    /\ last.kind = "expire"
    /\ rx_in_alive
    /\ \E k \in DOMAIN last.table :
          /\ last.table[k].flow_last_time < last.now - FLOW_TIMEOUT_US
          /\ k \notin DOMAIN flows
    /\ flows # EmptyFlows

\* C8: a flow record is either in the table and was never sent, or it is
\* out of the table and was sent exactly once: none is removed without
\* being sent, none is sent while it stays, none is sent twice.
C8_SentOnceWhenRemoved ==
    \A u \in 1..(next_uid - 1) :
        LET inTable == \E k \in DOMAIN flows : flows[k].uid = u
            nSent == Cardinality({i \in DOMAIN sent_uids : sent_uids[i] = u})
        IN  \/ inTable /\ nSent = 0
            \/ ~inTable /\ nSent = 1

C8_Witness ==
    /\ sent_uids = <<1>>
    /\ last.kind = "expire"
    /\ last.sent # <<>>
    /\ \E k \in DOMAIN flows : flows[k].uid = 2

\* C9: the binary stage runs exactly once for each flow taken from the
\* queue, the multi-class stage runs exactly when the binary p_attack is at
\* least 0.85, and an emitted MultiResult has multi present exactly when
\* bin.pred_label = 1.
C9_StagesPerFlow ==
    /\ cls_taken > 0 =>
          /\ bin_runs = 1
          /\ multi_runs = (IF cls_bin.present /\ cls_bin.probs[2] >= 85 THEN 1 ELSE 0)
    /\ \A i \in DOMAIN out_chan :
          out_chan[i].result.multi.present <=> out_chan[i].result.bin.pred_label = 1

C9_Witness ==
    /\ cls_taken >= 2
    /\ \E i \in DOMAIN out_chan : out_chan[i].result.multi.present
    /\ \E i \in DOMAIN out_chan : ~out_chan[i].result.multi.present
    /\ cls_bin.present
    /\ cls_bin.probs[2] < 85
    /\ multi_runs = 0

\* C10: the binary label is 1 exactly when p_attack >= 0.85, the bound
\* included: probabilities [0.15, 0.85] give label 1 and the multi-class
\* stage runs.
C10_ThresholdInclusive ==
    /\ cls_bin.present =>
          /\ cls_bin.pred_label = 1 <=> cls_bin.probs[2] >= 85
          /\ cls_bin.probs = <<15, 85>> => (cls_bin.pred_label = 1 /\ multi_runs = 1)
    /\ \A i \in DOMAIN out_chan :
          LET r == out_chan[i].result
          IN  /\ r.bin.pred_label = 1 <=> r.bin.probs[2] >= 85
              /\ r.bin.probs = <<15, 85>> => (r.bin.pred_label = 1 /\ r.multi.present)

C10_Witness ==
    /\ cls_bin.present
    /\ cls_bin.probs = <<15, 85>>
    /\ cls_bin.pred_label = 1
    /\ multi_runs = 1
    /\ out_chan # <<>>
    /\ out_chan[Len(out_chan)].result.bin.probs = <<15, 85>>
    /\ out_chan[Len(out_chan)].result.multi.present

\* C11: the multi-class label is the argmax of the probability vector, and
\* among several entries with the maximum value it is the lowest index.
\* max_by keeps the last of equal maxima: stated to be refuted.
C11_ArgmaxLowestIndex ==
    cls_multi.present =>
        LET probs == cls_multi.probs
            label == cls_multi.pred_label + 1
        IN  /\ label \in 1..Len(probs)
            /\ \A j \in 1..Len(probs) : probs[j] <= probs[label]
            /\ \A j \in 1..Len(probs) : probs[j] = probs[label] => label <= j

EmittedUids == {out_chan[i].flow.uid : i \in DOMAIN out_chan}

\* the last classification failed in the binary or in the multi-class stage
LastFailed ==
    /\ cls_taken > 0
    /\ \/ ~cls_bin.present
       \/ cls_bin.pred_label = 1 /\ ~cls_multi.present

\* C12: when the classification of a flow fails, in either stage, nothing
\* is emitted for that flow and the thread stays in its loop: each flow
\* taken is either emitted once or dropped, and every flow that waits in
\* the input channel of the running thread is eventually taken.
C12_ErrorDropsFlowOnly ==
    /\ [](/\ LastFailed => cls_flow.uid \notin EmittedUids
          /\ ~LastFailed /\ cls_taken > 0 =>
                /\ out_chan # <<>>
                /\ out_chan[Len(out_chan)].flow = cls_flow
          /\ Len(out_chan) + dropped = cls_taken
          /\ Cardinality(EmittedUids) = Len(out_chan)
          /\ dropped > 0 => cls_pc = "ready")
    /\ \A n \in 0..(MaxFlows + 1) :
          (cls_pc = "ready" /\ cls_taken = n /\ classifier_chan # <<>>)
              ~> (cls_taken > n)

C12_Witness ==
    /\ dropped >= 1
    /\ \E u \in 1..cls_taken :
          /\ u \notin EmittedUids
          /\ \E v \in EmittedUids : v > u
    /\ cls_pc = "ready"

\* C13: if loading a model fails the classifier thread exits without ever
\* emitting a result, and the engine keeps running: the steps it takes
\* with the classifier gone still consume the packet, remove terminated
\* and expired flows and emit NetworkStats, and what they send to the
\* classifier is dropped without an error.
C13_LoadFailureLeavesEngineRunning ==
    cls_pc = "exited" =>
        /\ out_chan = <<>>
        /\ cls_taken = 0
        /\ ~rx_in_alive
        /\ classifier_chan = <<>>
        /\ running
        /\ (last.kind = "pkt" /\ ~last.rx_alive) =>
              /\ last.updated.total_packets = last.pre_total + 1
              /\ last.terminate =>
                    (last.key \notin DOMAIN flows /\ Len(last.sent) = 1)
              /\ ~last.terminate => flows[last.key] = last.updated
        /\ (last.kind = "expire" /\ ~last.rx_alive) =>
              \A k \in DOMAIN last.table :
                  last.table[k].flow_last_time < last.now - FLOW_TIMEOUT_US =>
                      (k \notin DOMAIN flows /\ \E i \in DOMAIN last.sent :
                                                   last.sent[i] = last.table[k])
        /\ (last.kind = "stats" /\ ~last.rx_alive) =>
              /\ stats_chan # <<>>
              /\ stats_chan[Len(stats_chan)] = last.stats

\* with the classifier gone the engine terminates a second flow on a
\* packet, and it has emitted NetworkStats
C13_Witness ==
    /\ cls_pc = "exited"
    /\ last.kind = "pkt"
    /\ ~last.rx_alive
    /\ last.terminate
    /\ Len(sent_uids) = 2
    /\ classifier_chan = <<>>
    /\ stats_chan # <<>>

\* C14: for a flow in which only Forward packets were seen, the backward
\* minimum fields in the L1 and L2 feature vectors (bwd_packet_len_min,
\* bwd_iat_min) are 0 and not the sentinel maximum.
\* The sentinels are projected as they are: stated to be refuted.
C14_UnseenBackwardMinimaAreZero ==
    (rec.uid # 0 /\ rec.total_fwd_packets >= 1 /\ rec.total_bwd_packets = 0) =>
        /\ Len(extract_l1_features(rec)) = FEATURE_L1_COUNT
        /\ Len(extract_l2_features(rec)) = FEATURE_L2_COUNT
        /\ FeatureIsZero(extract_l1_features(rec)[6 + 1])
        /\ FeatureIsZero(extract_l2_features(rec)[4 + 1])
        /\ FeatureIsZero(extract_l2_features(rec)[20 + 1])

\* slots of the inter-arrival-time fields and of the std fields in the two
\* vectors (0-based, as in the source)
L1_IatSlots == {9, 10, 11, 12, 13, 14, 15, 16, 17, 18}
L2_IatSlots == {9, 10, 11, 12, 13, 14, 15, 16, 17, 18, 19, 20}
L1_StdSlots == {4, 10, 13, 18, 45, 46}
L2_StdSlots == {6, 10, 14, 18, 49, 51}

\* C15: for a flow that received exactly one packet every inter-arrival-time
\* field (flow, forward, backward: total, min, max, mean, std) is zero in
\* the L1 and L2 feature vectors, and every std value is zero.
\* The IAT minima keep their sentinel: stated to be refuted.
C15_SinglePacketIatZero ==
    (rec.uid # 0 /\ rec.total_packets = 1) =>
        /\ \A i \in L1_IatSlots \cup L1_StdSlots :
              FeatureIsZero(extract_l1_features(rec)[i + 1])
        /\ \A i \in L2_IatSlots \cup L2_StdSlots :
              FeatureIsZero(extract_l2_features(rec)[i + 1])

\* C16: when the conversation forward SYN, backward SYN+ACK, forward ACK,
\* forward PSH+ACK with 100 payload bytes, backward ACK, forward FIN+ACK has
\* gone through the capture parser and the engine, the classifier has
\* received exactly one flow, with total_packets = 6, total_fwd_packets = 4,
\* total_bwd_packets = 2, fin_flag_count = 1, fwd_psh_flags = 1 and
\* total_fwd_bytes >= 100.
\* The engine counts all six packets as Forward: stated to be refuted.
C16_ConversationCounts ==
    (captured = Len(ConvScript) /\ packet_chan = <<>>) =>
        /\ Len(classifier_chan) = 1
        /\ classifier_chan[1].total_packets = 6
        /\ classifier_chan[1].total_fwd_packets = 4
        /\ classifier_chan[1].total_bwd_packets = 2
        /\ classifier_chan[1].fin_flag_count = 1
        /\ classifier_chan[1].fwd_psh_flags = 1
        /\ classifier_chan[1].total_fwd_bytes >= 100

\* a flow of exactly two packets, the first at the flow's start T0 and the
\* second IdleGap microseconds later
IdleGap == ACTIVITY_TIMEOUT_US + 1000000
TwoPacketsIdleGapApart ==
    /\ rec.uid # 0
    /\ rec.total_packets = 2
    /\ rec.flow_start_time = T0
    /\ rec.last_packet_timestamp = T0 + IdleGap
    /\ rec.flow_iat_total = IdleGap

\* C17: for a flow of two packets 6 seconds apart, after the second update
\* one active period of 0 us has been recorded (active_counts = 1) and one
\* idle duration of 6 000 000 us has been recorded (idle_counts >= 1).
\* The second packet commits the active period only; the idle duration waits
\* for a later packet within 5 s: stated to be refuted.
C17_IdleCommittedAfterGap ==
    TwoPacketsIdleGapApart =>
        /\ rec.active_counts = 1
        /\ rec.active_time_tot = 0
        /\ rec.idle_counts >= 1
        /\ rec.idle_time_tot = IdleGap

\* the packets from..to of the train are Forward and carry payload
ForwardDataRun(from, to) ==
    \A i \in from..to : /\ rec_hist[i].direction = "Forward"
                        /\ rec_hist[i].payload_len > 0

\* sum of the payloads of the packets from..to of the train
RECURSIVE SumPayloads(_, _)
SumPayloads(from, to) ==
    IF from > to THEN 0
    ELSE rec_hist[from].payload_len + SumPayloads(from + 1, to)

\* the train so far is: Backward packets only (possibly none), then from
\* packet `from` on at least BULK_THRESHOLD Forward packets with payload,
\* then one Backward packet, the last so far
FirstForwardRunEnded(from) ==
    LET n == Len(rec_hist)
    IN  /\ n - from >= BULK_THRESHOLD
        /\ \A i \in 1..(from - 1) : rec_hist[i].direction = "Backward"
        /\ ForwardDataRun(from, n - 1)
        /\ rec_hist[n].direction = "Backward"

\* C18: after k >= 4 consecutive Forward packets each with payload > 0
\* followed by one Backward packet, with no earlier forward run in the flow,
\* the run is committed as exactly one bulk: num_fwd_bulk_transmissions = 1,
\* fwd_bytes_bulk_avg is the sum of the k payloads and fwd_packet_bulk_avg
\* is k.
C18_ForwardRunCommittedOnce ==
    \A from \in 1..Len(rec_hist) :
        FirstForwardRunEnded(from) =>
            /\ rec.num_fwd_bulk_transmissions = 1
            /\ rec.fwd_bytes_bulk_avg = Rat(SumPayloads(from, Len(rec_hist) - 1), 1)
            /\ rec.fwd_packet_bulk_avg = Rat(Len(rec_hist) - from, 1)

\* five Forward packets of 1000 bytes and a Backward packet: 1, 5000 and 5
C18_Witness ==
    /\ Len(rec_hist) = 6
    /\ FirstForwardRunEnded(1)
    /\ \A i \in 1..5 : rec_hist[i].payload_len = 1000
    /\ rec.num_fwd_bulk_transmissions = 1
    /\ rec.fwd_bytes_bulk_avg = Rat(5000, 1)
    /\ rec.fwd_packet_bulk_avg = Rat(5, 1)

\* C19: a run committed as a bulk has as bulk duration the time from the
\* first to the last packet of the run, and as bulk rate the run's bytes
\* over that duration: five forward packets 1 ms apart followed by a
\* backward packet give a forward bulk duration of 4 ms.
\* The duration runs to the packet that changes the direction: stated to be
\* refuted.
C19_BulkDurationFirstToLast ==
    \A from \in 1..Len(rec_hist) :
        FirstForwardRunEnded(from) =>
            LET first == rec_hist[from].timestamp
                lastp == rec_hist[Len(rec_hist) - 1].timestamp
            IN  /\ rec.fwd_bulk_duration = lastp - first
                /\ rec.fwd_bulk_rate_avg =
                      Rate(SumPayloads(from, Len(rec_hist) - 1), lastp - first)

\* some BULK_THRESHOLD consecutive packets of the train so far have the
\* same direction and each carries payload
SomeDataRun ==
    \E i \in 1..Len(rec_hist) :
        /\ i + BULK_THRESHOLD - 1 <= Len(rec_hist)
        /\ \A j \in i..(i + BULK_THRESHOLD - 1) :
              /\ rec_hist[j].direction = rec_hist[i].direction
              /\ rec_hist[j].payload_len > 0

\* C20: a bulk is committed (num_fwd_bulk_transmissions or
\* num_bwd_bulk_transmissions incremented) only when at least 4 consecutive
\* packets of one direction each had payload > 0; a run of 4 or more packets
\* that includes pure ACKs is not counted as a bulk.
\* The run counter counts packets whatever their payload: stated to be
\* refuted.
C20_BulkNeedsPayloadRun ==
    (rec.num_fwd_bulk_transmissions + rec.num_bwd_bulk_transmissions > 0) =>
        SomeDataRun

\* the record's packets are all Forward, all carry payload, and there are
\* at least BULK_THRESHOLD of them: one run, still open
OpenForwardRun(r) ==
    /\ r.total_bwd_packets = 0
    /\ r.total_fwd_packets >= BULK_THRESHOLD
    /\ r.fwd_act_data_packets = r.total_fwd_packets

\* C21: when a flow closes (removed on FIN, on age, or by the expiry tick)
\* while a run of at least 4 consecutive same-direction payload packets is
\* open, that run is committed as a bulk, so the record handed to the
\* classifier counts it in its bulk totals.
\* The engine sends the record as it is; nothing commits the open run:
\* stated to be refuted.
C21_OpenRunCommittedOnClose ==
    \A i \in 1..Len(classifier_chan) :
        OpenForwardRun(classifier_chan[i]) =>
            /\ classifier_chan[i].num_fwd_bulk_transmissions = 1
            /\ classifier_chan[i].fwd_bytes_bulk_tot = classifier_chan[i].total_fwd_bytes

\* C22: should_terminate(now, has_fin) is true if and only if has_fin is
\* set or now - flow_start exceeds 120 000 000 us; a packet exactly 120 s
\* after the flow's start does not terminate the flow.
\* The difference is taken in u64: a packet stamped before the flow's start
\* terminates the flow.  Stated to be refuted.
C22_ShouldTerminateIff ==
    last.kind = "pkt" =>
        /\ last.terminate <=>
              \/ last.has_fin
              \/ last.timestamp - last.updated.flow_start_time > FLOW_TIMEOUT_US
        /\ (~last.has_fin
            /\ last.timestamp = last.updated.flow_start_time + FLOW_TIMEOUT_US)
              => ~last.terminate

\* C23: once the running flag is cleared, the engine loop and the
\* publisher loop each serve at most the event they are at and then exit;
\* neither stays blocked, because a tick always wakes the select, so the
\* joins of stop_processor return.
C23_StopEndsBothLoops ==
    /\ [](eng_after <= 1 /\ pub_after <= 1)
    /\ [](stop_pc = "returned" => eng_pc = "exited" /\ pub_pc = "exited")
    /\ (~running) ~> (eng_pc = "exited" /\ pub_pc = "exited")
    /\ (~running) ~> (stop_pc = "returned")

C23_Witness ==
    /\ stop_pc = "returned"
    /\ eng_after = 1
    /\ pub_after = 1
    /\ eng_pc = "exited"
    /\ pub_pc = "exited"

\* C24: after stop_system returns, every worker of the pipeline eventually
\* exits, including the classifier thread and the thread that forwards
\* classified flows to the UI.
\* AppState keeps the ClassifierHandles, so the classifier's input channel
\* never closes: stated to be refuted.
C24_StopSystemEndsAllWorkers ==
    (stop_pc = "returned") ~>
        /\ eng_pc = "exited"
        /\ pub_pc = "exited"
        /\ cls_pc = "exited"
        /\ ui_pc = "exited"

\* the record of the conversation of client c after its first n frames went
\* through the packet branch back to back, with no tick served in between
RECURSIVE BackToBack(_, _)
BackToBack(c, n) ==
    LET pkt == parse_packet(ConvFrame(c, n))
        key == FlowKeyNew(pkt.flow_key.ip_a, pkt.flow_key.ip_b,
                          pkt.flow_key.port_a, pkt.flow_key.port_b,
                          pkt.flow_key.protocol)
    IN  apply_packet(IF n = 1 THEN lookup_or_insert(EmptyFlows, key, pkt, 1)
                              ELSE BackToBack(c, n - 1),
                     pkt)

\* C25: the packets of one flow sent back to back through the engine give
\* the same FlowRecord as the same packets with expiry ticks and stats ticks
\* served in between; a step that consumes no packet changes no field of a
\* record that stays in the table.
C25_TicksLeaveRecordsAlone ==
    /\ [](\A k \in DOMAIN flows : flows[k] = BackToBack(key_in, total_pkts))
    /\ [][total_pkts' = total_pkts =>
             \A k \in DOMAIN flows' :
                k \in DOMAIN flows /\ flows'[k] = flows[k]]_vars

\* three packets of the flow consumed, a stats tick served after the first
\* or the second of them, and an expiry tick served just now with the
\* record in the table
C25_Witness ==
    /\ total_pkts = 3
    /\ pkts_acc \in 1..2
    /\ last.kind = "expire"
    /\ DOMAIN last.table # {}
    /\ \E k \in DOMAIN flows : flows[k] = BackToBack(key_in, 3)

\* C26: a stats tick emits one NetworkStats whose flow_count is the size of
\* the flow table and whose total_packets and total_bytes are the lifetime
\* counts of the packets consumed; it resets the per-tick accumulators to 0,
\* sets last_rate_us to now, and leaves the table and the lifetime totals as
\* they were.
C26_StatsTickEffect ==
    /\ [](total_pkts = captured - Len(packet_chan))
    /\ [][total_bytes' = total_bytes
             + (IF total_pkts' # total_pkts
                THEN Head(packet_chan).payload_len ELSE 0)]_vars
    /\ [][Len(stats_chan') > Len(stats_chan) =>
             /\ stats_chan' = Append(stats_chan, last'.stats)
             /\ last'.kind = "stats"
             /\ last'.stats.flow_count = Cardinality(DOMAIN flows)
             /\ last'.stats.total_packets = total_pkts
             /\ last'.stats.total_bytes = total_bytes
             /\ pkts_acc' = 0 /\ bytes_acc' = 0
             /\ last_rate_us' = last'.now
             /\ flows' = flows
             /\ total_pkts' = total_pkts
             /\ total_bytes' = total_bytes]_vars

\* a second stats tick, served after packets with payload were consumed
\* before and after the first one, with one flow in the table
C26_Witness ==
    /\ last.kind = "stats"
    /\ Len(stats_chan) = 2
    /\ last.stats.flow_count = 1
    /\ last.stats.total_bytes > 0
    /\ last.stats.packets_per_second[1] > 0
    /\ last.stats.total_packets > last.stats.packets_per_second[1]
    /\ pkts_acc = 0 /\ bytes_acc = 0

\* the pairs of consecutive packets of direction d among the packets the
\* record was fed, and the gaps between them
DirPairs(d) ==
    { p \in (1..Len(rec_hist)) \X (1..Len(rec_hist)) :
        /\ p[1] < p[2]
        /\ rec_hist[p[1]].direction = d
        /\ rec_hist[p[2]].direction = d
        /\ \A k \in (p[1] + 1)..(p[2] - 1) : rec_hist[k].direction # d }

DirGaps(d) ==
    { rec_hist[p[2]].timestamp - rec_hist[p[1]].timestamp : p \in DirPairs(d) }

SetMin(S) == CHOOSE x \in S : \A y \in S : x <= y
SetMax(S) == CHOOSE x \in S : \A y \in S : x >= y

\* C27: fwd_iat_min and fwd_iat_max are the minimum and the maximum of the
\* gaps between consecutive Forward packets, and bwd_iat_min and bwd_iat_max
\* those of the gaps between consecutive Backward packets.
\* The source feeds the flow-level gap to min for both: stated to be refuted.
C27_DirectionIatMinMax ==
    /\ DirGaps("Forward") # {} =>
          /\ rec.fwd_iat_min = SetMin(DirGaps("Forward"))
          /\ rec.fwd_iat_max = SetMax(DirGaps("Forward"))
    /\ DirGaps("Backward") # {} =>
          /\ rec.bwd_iat_min = SetMin(DirGaps("Backward"))
          /\ rec.bwd_iat_max = SetMax(DirGaps("Backward"))

\* C28: once an active period has been committed, active_min and
\* active_max are the minimum and the maximum of the committed active
\* durations, and idle_min and idle_max those of the committed idle
\* durations.  With one duration committed both equal it, which is the
\* total; with more they enclose the mean.
\* update_active_time_stats discards the results of min and max: stated to
\* be refuted.
C28_ActiveIdleMinMax ==
    /\ rec.active_counts = 1 =>
          /\ rec.active_min = rec.active_time_tot
          /\ rec.active_max = rec.active_time_tot
    /\ rec.active_counts >= 1 =>
          /\ rec.active_min <= rec.active_max
          /\ rec.active_min * rec.active_counts <= rec.active_time_tot
          /\ rec.active_time_tot <= rec.active_max * rec.active_counts
    /\ rec.idle_counts = 1 =>
          /\ rec.idle_min = rec.idle_time_tot
          /\ rec.idle_max = rec.idle_time_tot
    /\ rec.idle_counts >= 1 =>
          /\ rec.idle_min <= rec.idle_max
          /\ rec.idle_min * rec.idle_counts <= rec.idle_time_tot
          /\ rec.idle_time_tot <= rec.idle_max * rec.idle_counts

RECURSIVE SumGaps(_)
SumGaps(P) ==
    IF P = {} THEN 0
    ELSE LET p == CHOOSE q \in P : TRUE
         IN  rec_hist[p[2]].timestamp - rec_hist[p[1]].timestamp
             + SumGaps(P \ {p})

\* C29: a direction's inter-arrival statistics are updated only when an
\* earlier packet of that direction exists: the first Forward packet of a
\* flow that began with a Backward packet leaves fwd_iat_total at 0, and
\* fwd_iat_total (bwd_iat_total) is always the sum of the gaps between
\* consecutive Forward (Backward) packets.
\* FlowRecord::new presets last_fwd_packet_timestamp to the start time:
\* stated to be refuted.
C29_DirectionIatTotals ==
    /\ rec.fwd_iat_total = SumGaps(DirPairs("Forward"))
    /\ rec.bwd_iat_total = SumGaps(DirPairs("Backward"))

\* the index at which the run of same-direction packets that ends the
\* history begins
RunStart ==
    LET n == Len(rec_hist)
    IN  CHOOSE i \in 1..n :
            /\ \A k \in i..n : rec_hist[k].direction = rec_hist[n].direction
            /\ i > 1 => rec_hist[i - 1].direction # rec_hist[n].direction

\* the packet fed in this step changes the direction
DirectionChanges ==
    /\ rec_hist # <<>>
    /\ Len(rec_hist') = Len(rec_hist) + 1
    /\ rec_hist'[Len(rec_hist')].direction # rec_hist[Len(rec_hist)].direction

\* C30: when the direction changes and the run that ends has fewer than
\* BULK_THRESHOLD packets, that direction's counter and current-bulk byte
\* accumulator are reset and nothing is committed; hence what a commit adds
\* to a direction's bulk byte total is the payload sum of the committed run.
\* update_bulk_features leaves a short run's accumulator as it is: stated to
\* be refuted.
C30_ShortRunResetWithoutCommit ==
    [][DirectionChanges =>
         LET n == Len(rec_hist)
             out == rec_hist[n].direction
             short == n - RunStart + 1 < BULK_THRESHOLD
             run_bytes == SumPayloads(RunStart, n)
         IN  /\ rec'.num_fwd_bulk_transmissions - rec.num_fwd_bulk_transmissions
                   = IF out = "Forward" /\ ~short THEN 1 ELSE 0
             /\ rec'.num_bwd_bulk_transmissions - rec.num_bwd_bulk_transmissions
                   = IF out = "Backward" /\ ~short THEN 1 ELSE 0
             /\ rec'.fwd_bytes_bulk_tot - rec.fwd_bytes_bulk_tot
                   = IF out = "Forward" /\ ~short THEN run_bytes ELSE 0
             /\ rec'.bwd_bytes_bulk_tot - rec.bwd_bytes_bulk_tot
                   = IF out = "Backward" /\ ~short THEN run_bytes ELSE 0
             /\ out = "Forward" =>
                   rec'.fwd_consecutive_packets = 0 /\ rec'.fwd_bytes_curr_bulk = 0
             /\ out = "Backward" =>
                   rec'.bwd_consecutive_packets = 0 /\ rec'.bwd_bytes_curr_bulk = 0]_vars

\* the sum of the samples of an accumulator, and the sum of the squares of
\* their deviations from the rational m
RECURSIVE SumSamples(_)
SumSamples(w) ==
    IF w = <<>> THEN 0 ELSE w[Len(w)].x + SumSamples(SubSeq(w, 1, Len(w) - 1))

RECURSIVE SumSquaredDeviations(_, _)
SumSquaredDeviations(w, m) ==
    IF w = <<>> THEN RatZero
    ELSE LET dev == RatSub(RatInt(w[Len(w)].x), m)
         IN  RatAdd(RatMul(dev, dev),
                    SumSquaredDeviations(SubSeq(w, 1, Len(w) - 1), m))

\* C31: with n packets, n >= 2: packet_len_variance = packet_len_m2 / (n - 1),
\* packet_len_std squared is that variance, it is >= 0, packet_len_mean is
\* the arithmetic mean of the n lengths (and packet_len_m2 the sum of the
\* squared deviations from it); with n < 2 variance and std are 0.
C31_PacketLenWelford ==
    LET n == rec.total_packets
        w == rec.packet_len_welford
        variance == StdSquared(w, rec.packet_len_variance)
        mean == Rat(SumSamples(w), Max(n, 1))
    IN  /\ Len(w) = n
        /\ n >= 2 =>
              /\ variance = RatDivInt(WelfordM2(w), n - 1)
              /\ StdSquared(w, rec.packet_len_std) = variance
              /\ variance.num >= 0
              /\ WelfordMean(w) = mean
              /\ WelfordM2(w) = SumSquaredDeviations(w, mean)
        /\ n < 2 =>
              /\ variance = RatZero
              /\ StdSquared(w, rec.packet_len_std) = RatZero

\* three packets of two different lengths: the variance is positive
C31_Witness ==
    /\ rec.total_packets = 3
    /\ rec.packet_len_min < rec.packet_len_max
    /\ StdSquared(rec.packet_len_welford, rec.packet_len_variance).num > 0

\* C32: the publisher emits nothing before it has received a NetworkStats;
\* a tick after that emits the NetworkStats received last, so one that was
\* replaced before a tick is never emitted, and what is emitted never goes
\* back to an older one.
C32_PublisherEmitsLatest ==
    /\ [](pub_received = 0 => emitted = NoEmit)
    /\ [][pub_received' # pub_received =>
             /\ pub_received' = pub_received + 1
             /\ latest' = Head(stats_chan)]_vars
    /\ [][emitted' # emitted =>
             /\ pub_received >= 1
             /\ emitted'.idx = pub_received
             /\ emitted'.stats = latest
             /\ emitted'.idx >= emitted.idx]_vars

\* the third NetworkStats received is emitted right after the first: the
\* second was replaced before the tick
C32_Witness ==
    /\ pub_received = 3
    /\ emitted.idx = 3
    /\ emitted.prev = 1
    /\ emitted.stats = latest

\* C33: while the engine runs, every flow put in the table is eventually
\* removed and handed to the classifier channel, also when it gets no more
\* packets and packets of other flows arrive without pause.
C33_SilentFlowExpires ==
    \A k \in {FlowKeyNew(c[1], c[2], c[3], c[4], TCP_PROTOCOL) : c \in ConvClients} :
        (k \in DOMAIN flows) ~>
            (k \notin DOMAIN flows /\ Len(sent_uids) >= 1)

\* the expiry tick has just removed the flow, 120 s after its last frame
C33_Witness ==
    /\ last.kind = "expire"
    /\ last.now = LateReading
    /\ Len(last.sent) = 1
    /\ flows = EmptyFlows
    /\ sent_uids = <<1>>

\* C34: an expiry tick keeps, with every field unchanged, each flow with
\* now - flow_last_time <= 120 s: a flow silent for exactly 120 s and a flow
\* whose flow_last_time lies ahead of the wall-clock reading included.
C34_ExpiryKeepsFresh ==
    last.kind = "expire" =>
        \A k \in DOMAIN last.table :
            last.now - last.table[k].flow_last_time <= FLOW_TIMEOUT_US =>
                /\ k \in DOMAIN flows
                /\ flows[k] = last.table[k]

\* C35: every record in the flow table has flow_last_time - flow_start_time
\* <= 120 s (and flow_last_time not before flow_start_time): a flow older
\* than the flow timeout does not survive one of its own packets.
C35_NoOldFlowSurvives ==
    \A k \in DOMAIN flows :
        /\ flows[k].flow_last_time >= flows[k].flow_start_time
        /\ flows[k].flow_last_time - flows[k].flow_start_time <= FLOW_TIMEOUT_US

\* a packet without FIN stamped exactly 120 s after the flow's start has
\* just been processed and the record is still in the table
C35_Witness ==
    /\ last.kind = "pkt"
    /\ ~last.has_fin
    /\ last.key \in DOMAIN flows
    /\ flows[last.key].total_packets = 2
    /\ flows[last.key].flow_last_time - flows[last.key].flow_start_time
          = FLOW_TIMEOUT_US

\* C36: a flow that a packet terminates is out of the table afterwards, and
\* the packet that finds its key absent from the table (also after a
\* removal on FIN, on age or by expiry) makes a fresh record: the record of
\* FlowRecord::new with that packet applied, flow_start_time the packet's
\* timestamp, total_packets 1, an identity never sent before; a key enters
\* the table only in this way.
C36_FreshRecordAfterRemoval ==
    [][/\ (packet_chan # <<>> /\ packet_chan' = Tail(packet_chan)) =>
             LET pkt == Head(packet_chan)
                 flow == last'.updated
             IN  /\ last'.terminate => last'.key \notin DOMAIN flows'
                 /\ last'.key \notin DOMAIN flows =>
                       /\ ~last'.existed
                       /\ flow = apply_packet(
                                    FlowRecordNew(last'.key, pkt.timestamp,
                                                  first_direction(pkt), next_uid),
                                    pkt)
                       /\ flow.flow_start_time = pkt.timestamp
                       /\ flow.total_packets = 1
                       /\ flow.total_fwd_packets + flow.total_bwd_packets = 1
                       /\ flow.total_bytes = pkt.payload_len
                       /\ \A i \in DOMAIN sent_uids : sent_uids[i] # flow.uid
                       /\ \A k \in DOMAIN flows : flows[k].uid # flow.uid
       /\ \A k \in DOMAIN flows' \ DOMAIN flows :
             /\ last'.kind = "pkt"
             /\ last'.key = k
             /\ flows'[k] = last'.updated
             /\ flows'[k].total_packets = 1]_vars

\* the flow of this key was removed and is waiting in the classifier's
\* queue; the packet just processed, stamped later, found the key absent
\* and its record, the second the engine made, is in the table
C36_Witness ==
    /\ last.kind = "pkt"
    /\ ~last.existed
    /\ last.key \in DOMAIN flows
    /\ flows[last.key].uid = 2
    /\ flows[last.key].total_packets = 1
    /\ flows[last.key].flow_start_time = last.timestamp
    /\ \E i \in DOMAIN classifier_chan :
          /\ classifier_chan[i].key = last.key
          /\ classifier_chan[i].uid = 1
          /\ classifier_chan[i].total_packets = 1
          /\ classifier_chan[i].flow_start_time < last.timestamp

\* the capture threads and the engine threads that have not ended
AliveCapture == {g \in DOMAIN systems : systems[g].cap # "exited"}
AliveEngine == {g \in DOMAIN systems : systems[g].eng # "exited"}

\* C37: for any sequence of start_system and stop_system calls at most one
\* capture thread and at most one engine thread are alive at a time, and
\* when stop_system has returned no capture thread and no engine thread of
\* any earlier start_system is running.
C37_OneSystemAtATime ==
    /\ Cardinality(AliveCapture) <= 1
    /\ Cardinality(AliveEngine) <= 1
    /\ cmd.pc = "stopped" => AliveCapture = {} /\ AliveEngine = {}

FlagBits == {1, 2, 4, 8, 16, 32, 64, 128}

FlagCounter(r, bit) ==
    CASE bit = 1 -> r.fin_flag_count
      [] bit = 2 -> r.syn_flag_count
      [] bit = 4 -> r.rst_flag_count
      [] bit = 8 -> r.psh_flag_count
      [] bit = 16 -> r.ack_flag_count
      [] bit = 32 -> r.urg_flag_count
      [] bit = 64 -> r.ece_flag_count
      [] bit = 128 -> r.cwr_flag_count

\* the packets of the first i entries of the flag history that carry bit
RECURSIVE FlaggedPackets(_, _)
FlaggedPackets(bit, i) ==
    IF i = 0 THEN 0
    ELSE FlaggedPackets(bit, i - 1)
         + (IF HasFlag(rec_hist[i].tcp_flags, bit) THEN rec_hist[i].n ELSE 0)

\* C38: each of the eight TCP flag counters equals the number of packets of
\* the flow that carried the flag, also when more than 65,535 packets
\* carried it.
C38_FlagCountersCountPackets ==
    \A bit \in FlagBits :
        FlagCounter(rec, bit) = FlaggedPackets(bit, Len(rec_hist))

\* C39: in a flow record idle_counts <= active_counts <= idle_counts + 1, and
\* is_in_active_period is true exactly when active_counts = idle_counts:
\* active and idle periods are committed in turn, an active one first.
C39_ActiveIdleAlternate ==
    rec # NoRecord =>
        /\ rec.idle_counts <= rec.active_counts
        /\ rec.active_counts <= rec.idle_counts + 1
        /\ rec.is_in_active_period <=> (rec.active_counts = rec.idle_counts)

\* an active period and then the idle period after it have been committed
C39_Witness ==
    /\ rec # NoRecord
    /\ rec.active_counts = 1
    /\ rec.idle_counts = 1
    /\ rec.is_in_active_period
    /\ rec.total_packets = 3

\* what the claim asks of one direction for the packet that takes the
\* record from r to s: packets, bytes, subflows, current-subflow packets and
\* bytes of the direction before and after, prev the timestamp of the
\* direction's previous packet
SubflowStep(packets, bytes_before, bytes_after, prev, timestamp, subflows_before, subflows_after, sub_packets_before, sub_packets_after, sub_bytes_after) ==
    IF packets = 0
    THEN subflows_after = 1 /\ sub_packets_after = 1
    ELSE IF timestamp - prev > SUBFLOW_TIMEOUT_US
         THEN /\ subflows_after = subflows_before + 1
              /\ sub_packets_after = 1
              /\ sub_bytes_after = bytes_after - bytes_before
         ELSE /\ subflows_after = subflows_before
              /\ sub_packets_after = sub_packets_before + 1

\* C40: subflow tracking treats both directions alike.  After the first
\* packet of a direction its subflow count is 1 and its current subflow has
\* 1 packet; afterwards the count grows by one exactly when the gap to the
\* direction's previous packet exceeds 1 s (current-subflow packets back to
\* 1, bytes to the packet's payload), otherwise the current subflow gets
\* one more packet.
C40_SubflowsAlikeBothDirections ==
    [][rec_updates' = rec_updates + 1 =>
         /\ rec'.total_fwd_packets = rec.total_fwd_packets + 1 =>
               SubflowStep(rec.total_fwd_packets,
                           rec.total_fwd_bytes, rec'.total_fwd_bytes,
                           rec.last_fwd_packet_timestamp, rec'.flow_last_time,
                           rec.total_fwd_subflows, rec'.total_fwd_subflows,
                           rec.subflow_fwd_packets, rec'.subflow_fwd_packets,
                           rec'.subflow_fwd_bytes)
         /\ rec'.total_bwd_packets = rec.total_bwd_packets + 1 =>
               SubflowStep(rec.total_bwd_packets,
                           rec.total_bwd_bytes, rec'.total_bwd_bytes,
                           rec.last_bwd_packet_timestamp, rec'.flow_last_time,
                           rec.total_bwd_subflows, rec'.total_bwd_subflows,
                           rec.subflow_bwd_packets, rec'.subflow_bwd_packets,
                           rec'.subflow_bwd_bytes)]_vars

=============================================================================
